---- MODULE Spec2Model ----
(***************************************************************************)
(* decode-config: the version-aware binary configuration codec             *)
(* (get_config_info, bin2mapping/get_field, mapping2bin/set_field, the     *)
(* checksum unit) and the Unishox text compressor, as state machines.      *)
(*                                                                         *)
(* Python integers are TLA+ integers.  A byte buffer (bytearray) is a      *)
(* function from 0..len-1 to 0..255.  A text is the sequence of its byte   *)
(* values; only 7-bit characters occur, for which str and bytes hold the   *)
(* same codes under utf-8.                                                 *)
(***************************************************************************)
EXTENDS Integers, Sequences, FiniteSets, TLC

\* ------------------------------------------------------------------------
\* Python's integer operators
\* ------------------------------------------------------------------------
Pow2(n) == 2 ^ n

RECURSIVE BitAnd1(_, _)
\* a & b for a, b >= 0, bit by bit
BitAnd1(a, b) ==
    IF a = 0 \/ b = 0 THEN 0
    ELSE (a % 2) * (b % 2) + 2 * BitAnd1(a \div 2, b \div 2)

\* a & b for a, b < 16
AndNibble == [a \in 0..15 |-> [b \in 0..15 |-> BitAnd1(a, b)]]

RECURSIVE BitAnd(_, _)
\* a & b for a, b >= 0, four bits at a time
BitAnd(a, b) ==
    IF a = 0 \/ b = 0 THEN 0
    ELSE AndNibble[a % 16][b % 16] + 16 * BitAnd(a \div 16, b \div 16)

\* a | b and a ^ b for a, b >= 0
BitOr(a, b) == a + b - BitAnd(a, b)
BitXor(a, b) == a + b - 2 * BitAnd(a, b)

\* a & b and a | b for integers of either sign (two's complement of
\* unbounded width, as Python defines them): ~x = -x-1
PyAnd(a, b) ==
    IF a >= 0 /\ b >= 0 THEN BitAnd(a, b)
    ELSE IF a >= 0 THEN a - BitAnd(a, -b - 1)
    ELSE IF b >= 0 THEN b - BitAnd(b, -a - 1)
    ELSE -1 - BitOr(-a - 1, -b - 1)

PyOr(a, b) ==
    IF a >= 0 /\ b >= 0 THEN BitOr(a, b)
    ELSE IF a >= 0 THEN b + BitAnd(a, -b - 1)
    ELSE IF b >= 0 THEN a + BitAnd(b, -a - 1)
    ELSE -1 - BitAnd(-a - 1, -b - 1)

\* a >> n and a << n (>> floors, also for negative a)
Shr(a, n) == a \div Pow2(n)
Shl(a, n) == a * Pow2(n)

Abs(x) == IF x < 0 THEN -x ELSE x

None == [k |-> "None"]
IsNone(x) == x = None

\* ------------------------------------------------------------------------
\* struct formats.  A format string is Fmt(cnt, typ): '<H' is Fmt(1, "H"),
\* '8s' is Fmt(8, "s").  All multi-byte formats are little-endian.
\* ------------------------------------------------------------------------
Fmt(cnt, typ) == [k |-> "str", cnt |-> cnt, typ |-> typ]

\* struct.calcsize of one element of the type
TypeSize(typ) ==
    CASE typ \in {"B", "b", "s"} -> 1
      [] typ \in {"H", "h"} -> 2
      [] typ \in {"L", "l"} -> 4

IsSigned(typ) == typ \in {"b", "h", "l"}
IsStringType(typ) == typ = "s"

\* get_formatcount: the count prefix of the format, 1 if there is none
get_formatcount(format_) == format_.cnt

\* get_formattype: the bit size of the format without its count prefix
get_formattype(format_) == TypeSize(format_.typ) * 8

\* struct.calcsize(format_)
CalcSize(format_) == format_.cnt * TypeSize(format_.typ)

RECURSIVE UnpackUnsigned(_, _, _)
\* the little-endian unsigned number in the n bytes of dobj from addr
UnpackUnsigned(dobj, addr, n) ==
    IF n = 0 THEN 0
    ELSE dobj[addr] + 256 * UnpackUnsigned(dobj, addr + 1, n - 1)

\* one element of struct.unpack_from for a number type
UnpackOne(typ, dobj, addr) ==
    LET u == UnpackUnsigned(dobj, addr, TypeSize(typ))
        half == Pow2(TypeSize(typ) * 8 - 1)
    IN IF IsSigned(typ) /\ u >= half THEN u - 2 * half ELSE u

\* struct.pack_into accepts val for a number type
PackFits(typ, val) ==
    LET bitsize == TypeSize(typ) * 8
    IN IF IsSigned(typ)
       THEN -Pow2(bitsize - 1) <= val /\ val <= Pow2(bitsize - 1) - 1
       ELSE 0 <= val /\ val <= Pow2(bitsize) - 1

\* the bytes struct.pack_into writes for a number that fits
PackOne(typ, dobj, addr, val) ==
    LET n == TypeSize(typ)
        u == val % Pow2(8 * n)
    IN [i \in DOMAIN dobj |->
          IF addr <= i /\ i < addr + n THEN (u \div Pow2(8 * (i - addr))) % 256
          ELSE dobj[i]]

\* struct.pack_into clears the field before it converts the value, so a
\* refused value leaves the n bytes zeroed in CPython; an implementation
\* that converts first leaves them alone.  zeroes selects the outcome.
PackRefused(dobj, addr, n, zeroes) ==
    IF zeroes
    THEN [i \in DOMAIN dobj |-> IF addr <= i /\ i < addr + n THEN 0 ELSE dobj[i]]
    ELSE dobj

\* a pack of a string that leaves the bytes behind the text as they are
PackString_unpadded(dobj, addr, n, text) ==
    [i \in DOMAIN dobj |->
        IF addr <= i /\ i < addr + n /\ i - addr + 1 <= Len(text)
        THEN text[i - addr + 1]
        ELSE dobj[i]]

\* struct.pack_into('<n>s'): the text, cut or NUL-padded to n bytes
PackString(dobj, addr, n, text) ==
    [i \in DOMAIN dobj |->
        IF addr <= i /\ i < addr + n
        THEN (IF i - addr + 1 <= Len(text) THEN text[i - addr + 1] ELSE 0)
        ELSE dobj[i]]

\* struct.unpack_from('<n>s'): the n bytes from addr
UnpackString(dobj, addr, n) == [i \in 1..n |-> dobj[addr + i - 1]]

\* ------------------------------------------------------------------------
\* Checksum unit
\* ------------------------------------------------------------------------
RECURSIVE get_settingcrc_sum(_, _, _)
\* crc += dobj[i] * (i+1) for i in range(i, size), bytes 14 and 15 skipped
get_settingcrc_sum(dobj, i, size) ==
    IF i >= size THEN 0
    ELSE (IF i \in {14, 15} THEN 0 ELSE dobj[i] * (i + 1))
         + get_settingcrc_sum(dobj, i + 1, size)

\* A 32 bit value is held as <<high 16 bits, low 16 bits>>.
Crc32Poly == <<60856, 33568>>       \* 0xEDB88320

\* crc = (crc >> 1) ^ (-int(crc & 1) & 0xEDB88320)
Crc32Shift(crc) ==
    LET hi == crc[1] \div 2
        lo == (crc[2] \div 2) + 32768 * (crc[1] % 2)
    IN IF crc[2] % 2 = 1
       THEN <<BitXor(hi, Crc32Poly[1]), BitXor(lo, Crc32Poly[2])>>
       ELSE <<hi, lo>>

RECURSIVE Crc32Bits(_, _)
\* for _ in range(0, n): the shift step (crc stays within 32 bits)
Crc32Bits(crc, n) ==
    IF n = 0 \/ crc[1] > 65535 THEN crc
    ELSE Crc32Bits(Crc32Shift(crc), n - 1)

\* The eight shift steps that follow crc ^= dobj[i] act on each bit of crc
\* separately (every step is a shift and an exclusive or): the bits above
\* the low byte are shifted down by eight, and the low byte b contributes
\* the eight steps applied to b alone.
Crc32Byte == [b \in 0..255 |-> Crc32Bits(<<0, b>>, 8)]

\* (crc >> 8) ^ steps
Crc32Xor(crc, steps) ==
    <<BitXor(crc[1] \div 256, steps[1]),
      BitXor((crc[2] \div 256) + 256 * (crc[1] % 256), steps[2])>>

RECURSIVE Crc32Loop(_, _, _, _)
\* for i in range(i, end): crc ^= dobj[i], then the eight shift steps.
\* The rounds from i to end are those of the first half followed by those
\* of the second half on the register the first half leaves.
Crc32Loop(dobj, i, end, crc) ==
    IF i >= end THEN crc
    ELSE IF end - i = 1
    THEN Crc32Xor(crc, Crc32Byte[BitXor(crc[2] % 256, dobj[i])])
    ELSE CHOOSE r \in {Crc32Loop(dobj, i + ((end - i) \div 2), end, half) :
                          half \in {Crc32Loop(dobj, i, i + ((end - i) \div 2), crc)}} : TRUE

\* ~crc & 0xffffffff
Crc32Not(crc) == <<65535 - crc[1], 65535 - crc[2]>>

\* the standard CRC-32 (zlib.crc32) over all bytes but the last four: the
\* same steps with the register starting from 0xffffffff
crc32_standard(dobj) ==
    Crc32Not(Crc32Loop(dobj, 0, Cardinality(DOMAIN dobj) - 4, <<65535, 65535>>))

\* get_settingcrc32: CRC-32 over all bytes but the last four; ~crc at the end
get_settingcrc32(dobj) ==
    Crc32Not(Crc32Loop(dobj, 0, Cardinality(DOMAIN dobj) - 4, <<0, 0>>))

\* the 32 bit value in the four bytes from addr ('<L')
Unpack32(dobj, addr) ==
    <<UnpackUnsigned(dobj, addr + 2, 2), UnpackUnsigned(dobj, addr, 2)>>

\* struct.pack_into('<L', dobj, addr, value) for a 32 bit value
Pack32(dobj, addr, value) ==
    [i \in DOMAIN dobj |->
        IF i = addr THEN value[2] % 256
        ELSE IF i = addr + 1 THEN value[2] \div 256
        ELSE IF i = addr + 2 THEN value[1] % 256
        ELSE IF i = addr + 3 THEN value[1] \div 256
        ELSE dobj[i]]

\* ------------------------------------------------------------------------
\* Bit/byte accessor
\* ------------------------------------------------------------------------
\* bitsread: the bits field of value at position pos
bitsread(value, pos, bits) ==
    LET shifted == IF pos >= 0 THEN Shr(value, pos) ELSE Shl(value, Abs(pos))
    IN IF bits > 0 THEN shifted % Pow2(bits) ELSE shifted

RECURSIVE UnpackFold(_, _, _, _, _)
\* for val in unpackedvalue: value_ <<= bitsize; value_ = value_ + val
UnpackFold(typ, dobj, addr, cnt, acc) ==
    IF cnt = 0 THEN acc
    ELSE UnpackFold(typ, dobj, addr + TypeSize(typ), cnt - 1,
                    Shl(acc, TypeSize(typ) * 8) + UnpackOne(typ, dobj, addr))

\* ------------------------------------------------------------------------
\* Values of the mapping (the JSON tree): tagged records
\* ------------------------------------------------------------------------
IntV(n) == [k |-> "int", v |-> n]
\* a number of a '<L' field, as <<high 16 bits, low 16 bits>>
LongV(hl) == [k |-> "long", v |-> hl]
StrV(s) == [k |-> "str", v |-> s]
\* a dict: the sequence of its <<name, value>> items, in insertion order
DictV(items) == [k |-> "dict", v |-> items]
ListV(elems) == [k |-> "list", v |-> elems]
FalseV == [k |-> "False"]

\* dict.get(name, None) on a sequence of <<name, value>> items
DictGet(items, name) ==
    LET idx == {i \in 1..Len(items) : items[i][1] = name}
    IN IF idx = {} THEN None ELSE items[CHOOSE i \in idx : TRUE][2]

\* ------------------------------------------------------------------------
\* Text helpers (str.split, str.rstrip, str.join, format and int())
\* ------------------------------------------------------------------------
RECURSIVE Split(_, _)
\* s.split('\x00', maxsplit); maxsplit < 0 splits at every NUL
Split(s, maxsplit) ==
    LET nul == {i \in 1..Len(s) : s[i] = 0}
    IN IF maxsplit = 0 \/ nul = {} THEN <<s>>
       ELSE LET i == CHOOSE j \in nul : \A m \in nul : j <= m
            IN <<SubSeq(s, 1, i - 1)>> \o Split(SubSeq(s, i + 1, Len(s)), maxsplit - 1)

RECURSIVE RStrip(_)
\* s.rstrip('\x00')
RStrip(s) ==
    IF Len(s) > 0 /\ s[Len(s)] = 0 THEN RStrip(SubSeq(s, 1, Len(s) - 1)) ELSE s

RECURSIVE Join(_)
\* '\0'.join(sarray)
Join(sarray) ==
    IF Len(sarray) = 0 THEN <<>>
    ELSE IF Len(sarray) = 1 THEN sarray[1]
    ELSE sarray[1] \o <<0>> \o Join(Tail(sarray))

\* c.isprintable() or c in ('\n', '\r', '\t'), for 7 bit characters
IsPrintable(c) == (32 <= c /\ c <= 126) \/ c \in {9, 10, 13}

RECURSIVE HexDigits(_, _)
\* the hexadecimal digits of n >= 0, zero padded to width characters
HexDigits(n, width) ==
    IF n = 0 /\ width <= 0 THEN <<>>
    ELSE Append(HexDigits(n \div 16, width - 1),
                IF n % 16 < 10 THEN 48 + (n % 16) ELSE 87 + (n % 16))

\* '"0x{:0<width>x}".format(value); hex(value) is the width 1 format
HexFormat(value, width) ==
    StrV(<<48, 120>> \o
         (IF value.k = "long" /\ value.v[1] # 0
          THEN HexDigits(value.v[1], width - 4) \o HexDigits(value.v[2], 4)
          ELSE IF value.k = "long" THEN HexDigits(value.v[2], width)
          ELSE HexDigits(value.v, width)))

RECURSIVE HexParse(_, _)
\* the number the hexadecimal digits of s denote, after acc
HexParse(s, acc) ==
    IF Len(s) = 0 THEN acc
    ELSE HexParse(Tail(s), acc * 16 + (IF s[1] >= 97 THEN s[1] - 87 ELSE s[1] - 48))

\* int(text, 0) for the texts the hexadecimal formats produce ("0x...")
IntOfText(s) == HexParse(SubSeq(s, 3, Len(s)), 0)

\* ------------------------------------------------------------------------
\* Hardware
\* ------------------------------------------------------------------------
ESP82 == 1
ESP32ex == 2
ESP32S3 == 4
ESP32S2 == 8
ESP32C3 == 16
ESP32 == 30
ESP == 255
\* Tasmota config_version values -> hardware bit mask
config_versions == <<ESP82, ESP32ex, ESP32S3, ESP32S2, ESP32C3>>

\* Hardware.get_bitmask: config_versions[config_version], ESP when that raises
get_bitmask(config_version) ==
    IF 0 <= config_version /\ config_version < Len(config_versions)
    THEN config_versions[config_version + 1]
    ELSE IF -Len(config_versions) <= config_version /\ config_version < 0
    THEN config_versions[Len(config_versions) + config_version + 1]
    ELSE ESP

\* a match that takes every setting hardware for the hardware of the data
match_any(setting_hardware, config_version) == TRUE

\* Hardware.match
match(setting_hardware, config_version) ==
    BitAnd(setting_hardware, get_bitmask(config_version)) # 0

\* ------------------------------------------------------------------------
\* Field definitions.  get_fielddef unpacks the tuple
\* (hardware, format_, addrdef, datadef, converter) into its items:
\*   addrdef   <<baseaddr, bits, bitshift, strindex_name>> ("" : no index)
\*   datadef   <<arraydef, validate>>, arraydef a sequence (<<>> : None)
\*   converter <<readconverter, writeconverter>>
\* A validator '<lo> <= $ <= <hi>' is <<lo, hi>>, '<lo> <= $ <= <hi> or
\* $==<x>' is <<lo, hi, x>>, no validator is <<>>.  Converters are named
\* "None", "False" or by their text.
\* ------------------------------------------------------------------------
get_fielddef(hardware, format_, addrdef, datadef, converter) ==
    [hardware |-> hardware, format_ |-> format_,
     baseaddr |-> addrdef[1], bits |-> addrdef[2], bitshift |-> addrdef[3],
     strindex_name |-> addrdef[4],
     arraydef |-> datadef[1], validate |-> datadef[2],
     readconverter |-> converter[1], writeconverter |-> converter[2]]

\* a format_ that is a dict of named field definitions
DictFormat(fields) == [k |-> "dict", fields |-> fields]

\* dict.update(items): a present key keeps its place, a new one is appended
RECURSIVE update(_, _)
update(setting, items) ==
    IF Len(items) = 0 THEN setting
    ELSE LET item == items[1]
             at == {i \in 1..Len(setting) : setting[i][1] = item[1]}
         IN update(IF at = {} THEN Append(setting, item)
                   ELSE [i \in 1..Len(setting) |->
                            IF i \in at THEN item ELSE setting[i]],
                   Tail(items))

\* the size in bytes of every setting of the model
Size == 40

\* the settings of the oldest version: no checksum field, plain strings
SETTING_1 ==
    << <<"cfg_holder", get_fielddef(ESP, Fmt(1, "H"), <<0, 0, 0, "">>, <<<<>>, <<>>>>, <<"None", "None">>)>>,
       <<"version", get_fielddef(ESP, Fmt(1, "L"), <<8, 0, 0, "">>, <<<<>>, <<>>>>, <<"hex", "False">>)>>,
       <<"display_size", get_fielddef(ESP, Fmt(1, "B"), <<16, 0, 0, "">>, <<<<>>, <<1, 4>>>>, <<"None", "None">>)>>,
       <<"timezone", get_fielddef(ESP, Fmt(1, "b"), <<17, 0, 0, "">>, <<<<>>, <<-13, 13, 99>>>>, <<"None", "None">>)>>,
       <<"tflag", get_fielddef(ESP, DictFormat(
            << <<"hemis", get_fielddef(ESP, Fmt(1, "H"), <<18, 1, 0, "">>, <<<<>>, <<>>>>, <<"None", "None">>)>>,
               <<"week", get_fielddef(ESP, Fmt(1, "H"), <<18, 3, 1, "">>, <<<<>>, <<0, 4>>>>, <<"None", "None">>)>>,
               <<"month", get_fielddef(ESP, Fmt(1, "H"), <<18, 4, 4, "">>, <<<<>>, <<1, 12>>>>, <<"None", "None">>)>>,
               <<"dow", get_fielddef(ESP, Fmt(1, "H"), <<18, 3, 8, "">>, <<<<>>, <<1, 7>>>>, <<"None", "None">>)>>,
               <<"hour", get_fielddef(ESP, Fmt(1, "H"), <<18, 5, 11, "">>, <<<<>>, <<0, 23>>>>, <<"None", "None">>)>> >>),
            <<18, 0, 0, "">>, <<<<2>>, <<>>>>, <<"None", "None">>)>>,
       <<"web_color", get_fielddef(ESP, Fmt(3, "B"), <<24, 0, 0, "">>, <<<<>>, <<>>>>, <<"0x06x", "None">>)>>,
       <<"ota_url", get_fielddef(ESP, Fmt(8, "s"), <<28, 0, 0, "">>, <<<<>>, <<>>>>, <<"None", "None">>)>> >>

\* cfg_size and the legacy checksum appear
SETTING_2 ==
    update(SETTING_1,
    << <<"cfg_size", get_fielddef(ESP, Fmt(1, "H"), <<2, 0, 0, "">>, <<<<>>, <<>>>>, <<"None", "False">>)>>,
       <<"cfg_crc", get_fielddef(ESP, Fmt(1, "H"), <<14, 0, 0, "">>, <<<<>>, <<>>>>, <<"0x04x", "None">>)>> >>)

\* the CRC32 appears and the strings move into the indexed string pool
SETTING_5 ==
    update(SETTING_2,
    << <<"cfg_crc32", get_fielddef(ESP, Fmt(1, "L"), <<Size - 4, 0, 0, "">>, <<<<>>, <<>>>>, <<"0x08x", "None">>)>>,
       <<"ota_url", get_fielddef(ESP, Fmt(8, "s"), <<28, 0, 0, "SET_OTAURL">>, <<<<>>, <<>>>>, <<"None", "None">>)>>,
       <<"mqtt_host", get_fielddef(ESP, Fmt(8, "s"), <<28, 0, 0, "SET_MQTT_HOST">>, <<<<>>, <<>>>>, <<"None", "None">>)>> >>)

\* config_version, the script with its switch scripting_used and the ESP32
\* only webcam_config appear
SETTING_9 ==
    update(SETTING_5,
    << <<"config_version", get_fielddef(ESP, Fmt(1, "B"), <<27, 0, 0, "">>, <<<<>>, <<0, 4>>>>, <<"None", "False">>)>>,
       <<"scripting_used", get_fielddef(ESP, Fmt(1, "B"), <<12, 1, 7, "">>, <<<<>>, <<>>>>, <<"False", "False">>)>>,
       <<"script", get_fielddef(ESP, Fmt(4, "s"), <<4, 0, 0, "">>, <<<<>>, <<>>>>, <<"scriptread", "scriptwrite">>)>>,
       <<"webcam_config", get_fielddef(ESP32, DictFormat(
            << <<"stream", get_fielddef(ESP32, Fmt(1, "H"), <<22, 1, 0, "">>, <<<<>>, <<>>>>, <<"None", "None">>)>>,
               <<"contrast", get_fielddef(ESP32, Fmt(1, "h"), <<22, 3, 2, "">>, <<<<>>, <<0, 4>>>>, <<"None", "None">>)>>,
               <<"resolution", get_fielddef(ESP32, Fmt(1, "h"), <<22, 4, 12, "">>, <<<<>>, <<0, 10>>>>, <<"None", "None">>)>> >>),
            <<22, 0, 0, "">>, <<<<>>, <<>>>>, <<"None", "None">>)>> >>)

\* the index names of the string pool, the settings' $SETTINGVAR entry
\* (from SETTING_5 on; older settings have none)
SETTINGVAR(setting) ==
    IF IsNone(DictGet(setting, "cfg_crc32")) THEN <<>>
    ELSE <<"SET_OTAURL", "SET_MQTT_HOST", "SET_MAX">>

\* the registry: (version, size, setting)
SETTINGS ==
    << <<9, Size, SETTING_9>>, <<5, Size, SETTING_5>>,
       <<2, Size, SETTING_2>>, <<1, Size, SETTING_1>> >>

\* ------------------------------------------------------------------------
\* Field helpers
\* ------------------------------------------------------------------------
\* get_strindex: the index of the name in the settings' index names, -1
\* when it is not there (or there are no index names)
get_strindex(CONFIG, strindex_name) ==
    LET names == SETTINGVAR(CONFIG.template)
        at == {i \in 1..Len(names) : names[i] = strindex_name}
    IN IF at = {} THEN -1 ELSE (CHOOSE i \in at : TRUE) - 1

\* sequence[index] as Python evaluates it: a negative index counts from
\* the end; 0 when the index is out of range (IndexError)
PyIndex(sequence, index) ==
    IF 0 <= index /\ index < Len(sequence) THEN index + 1
    ELSE IF -Len(sequence) <= index /\ index < 0 THEN Len(sequence) + index + 1
    ELSE 0

\* get_fieldminmax: <<min, max>> of the format
get_fieldminmax(fielddef) ==
    LET typ == fielddef.format_.typ
    IN CASE typ = "b" -> <<-128, 127 * fielddef.format_.cnt>>
         [] typ = "B" -> <<0, 255 * fielddef.format_.cnt>>
         [] typ = "h" -> <<-32768, 32767 * fielddef.format_.cnt>>
         [] typ = "H" -> <<0, 65535 * fielddef.format_.cnt>>
         [] typ = "s" -> <<0, fielddef.format_.cnt>>

\* get_subfielddef: the definition of one element of an array
get_subfielddef(fielddef) == [fielddef EXCEPT !.arraydef = Tail(@)]

RECURSIVE get_fieldlength(_)
RECURSIVE DictLength(_, _)
\* get_fieldlength of a dict format: the lengths of the fields from the
\* i-th on, one length for each change of the base address
DictLength(fields, i) ==
    IF i > Len(fields) THEN 0
    ELSE (IF i = 1 \/ fields[i][2].baseaddr # fields[i - 1][2].baseaddr
          THEN get_fieldlength(fields[i][2]) ELSE 0)
         + DictLength(fields, i + 1)

\* get_fieldlength: the length of a field in bytes
get_fieldlength(fielddef) ==
    IF Len(fielddef.arraydef) > 0
    THEN fielddef.arraydef[1] * get_fieldlength(get_subfielddef(fielddef))
    ELSE IF fielddef.format_.k = "dict" THEN DictLength(fielddef.format_.fields, 1)
    ELSE CalcSize(fielddef.format_)

\* validate_value with no value set apart: every value must satisfy the
\* validator if there is one
validate_value_strict(value, fielddef) ==
    LET validate == fielddef.validate
    IN IF Len(validate) = 0 THEN TRUE
       ELSE (validate[1] <= value /\ value <= validate[2])
            \/ (Len(validate) = 3 /\ value = validate[3])

\* validate_value: 0 is always valid, every other value must satisfy the
\* validator if there is one
validate_value(value, fielddef) ==
    LET validate == fielddef.validate
    IN IF value = 0 THEN TRUE
       ELSE IF Len(validate) = 0 THEN TRUE
       ELSE (validate[1] <= value /\ value <= validate[2])
            \/ (Len(validate) = 3 /\ value = validate[3])

\* the width of the hexadecimal format a read converter names
HexWidth(readconverter) ==
    CASE readconverter = "hex" -> 1
      [] readconverter = "0x04x" -> 4
      [] readconverter = "0x06x" -> 6
      [] OTHER -> 8

\* scriptread without compression: the script when scripting is used,
\* else False
scriptread(CONFIG, value) == IF CONFIG.scripting_used = 1 THEN value ELSE FalseV

\* scriptwrite without compression: the script when scripting is used,
\* else False
scriptwrite(CONFIG, value) == IF CONFIG.scripting_used = 1 THEN value ELSE FalseV

\* read_converter: the value as the mapping shows it
read_converter(CONFIG, value, fielddef, raw) ==
    IF raw \/ fielddef.readconverter = "None" THEN value
    ELSE IF fielddef.readconverter = "False" THEN FalseV
    ELSE IF fielddef.readconverter = "scriptread" THEN scriptread(CONFIG, value)
    ELSE HexFormat(value, HexWidth(fielddef.readconverter))

\* write_converter: the value as it goes to the buffer
write_converter(CONFIG, value, fielddef) ==
    IF fielddef.writeconverter = "scriptwrite" THEN scriptwrite(CONFIG, value) ELSE value

\* [s.rstrip("\x00") for s in sarray]
RStripAll(sarray) == [i \in 1..Len(sarray) |-> RStrip(sarray[i])]

\* get_fieldvalue, a string: the piece the index selects (the whole text
\* when the field has no index name), its printable characters, cut to
\* maxlength
StringValue(sarray, indexed, index, maxlength) ==
    LET at == PyIndex(sarray, index)
        printable == SelectSeq(IF ~indexed THEN sarray[1]
                               ELSE IF at = 0 THEN <<>> ELSE sarray[at],
                               IsPrintable)
    IN SubSeq(printable, 1, IF Len(printable) < maxlength THEN Len(printable) ELSE maxlength)

\* get_fieldvalue: the value of a single field read from dobj at addr
get_fieldvalue(CONFIG, fieldname, fielddef, dobj, addr, idxoffset) ==
    IF fielddef.format_.typ = "L" THEN LongV(Unpack32(dobj, addr))
    ELSE IF ~IsStringType(fielddef.format_.typ)
    THEN IntV(bitsread(UnpackFold(fielddef.format_.typ, dobj, addr, fielddef.format_.cnt, 0),
                       fielddef.bitshift, fielddef.bits))
    ELSE StrV(StringValue(
             RStripAll(Split(UnpackString(dobj, addr, fielddef.format_.cnt),
                             get_strindex(CONFIG, "SET_MAX"))),
             fielddef.strindex_name # "",
             get_strindex(CONFIG, fielddef.strindex_name) + idxoffset,
             get_fieldlength(fielddef)))

\* get_field's result for an array: None when every element is None
ArrayMapping(arraymapping) ==
    IF \A i \in 1..Len(arraymapping) : arraymapping[i] = None
    THEN None ELSE ListV(arraymapping)

\* if readmapping is False: return valuemapping (None)
Hidden(readmapping) == IF readmapping = FalseV THEN None ELSE readmapping

\* get_field's result for a single value: the value itself without
\* converter, else what read_converter makes of it, None when that is False
SingleMapping(CONFIG, value, fielddef, raw, converter) ==
    IF ~converter THEN value ELSE Hidden(read_converter(CONFIG, value, fielddef, raw))

RECURSIVE get_field(_, _, _, _, _, _, _, _)
\* get_field: the mapping of a field; None when the hardware does not
\* match, the field is hidden or an array holds nothing
get_field(CONFIG, dobj, config_version, fieldname, fielddef, raw, addroffset, converter) ==
    IF ~match(fielddef.hardware, config_version) THEN None
    ELSE IF Len(fielddef.arraydef) > 0
    THEN ArrayMapping(
             IF get_fieldlength(get_subfielddef(fielddef)) = 0 THEN <<>>
             ELSE [i \in 1..fielddef.arraydef[1] |->
                      get_field(CONFIG, dobj, config_version, fieldname,
                                get_subfielddef(fielddef), raw,
                                IF fielddef.strindex_name # "" THEN i - 1
                                ELSE addroffset + (i - 1) * get_fieldlength(get_subfielddef(fielddef)),
                                converter)])
    ELSE IF fielddef.format_.k = "dict"
    THEN DictV(SelectSeq(
             [i \in 1..Len(fielddef.format_.fields) |->
                 <<fielddef.format_.fields[i][1],
                   get_field(CONFIG, dobj, config_version, fielddef.format_.fields[i][1],
                             fielddef.format_.fields[i][2], raw, addroffset, converter)>>],
             LAMBDA item : item[2] # None))
    ELSE IF get_fieldlength(fielddef) = 0 THEN None
    ELSE SingleMapping(CONFIG,
             get_fieldvalue(CONFIG, fieldname, fielddef, dobj,
                            IF fielddef.strindex_name # "" THEN fielddef.baseaddr
                            ELSE fielddef.baseaddr + addroffset,
                            IF fielddef.strindex_name # "" THEN addroffset ELSE 0),
             fielddef, raw, converter)

\* ------------------------------------------------------------------------
\* The run of the program.  A run record holds what an operation leaves
\* behind: the buffer it works on, the exit code, whether the program has
\* exited (sys.exit), whether an exception is propagating, and the messages
\* written.  An operation started on a run that has exited does nothing.
\* ------------------------------------------------------------------------
VARIABLES
    pc,             \* the position in the main flow
    decode,         \* CONFIG['decode']: the configuration data read
    info,           \* CONFIG['info']: get_config_info's result, None before
    groupmapping,   \* CONFIG['groupmapping']: bin2mapping's result, None before
    jsonconfig,     \* the restore data offered to mapping2bin, None before
    run,            \* the run record
    ignorewarning,  \* ARGS.ignorewarning
    packzero,       \* whether a refused struct.pack_into has cleared the field
    usx,            \* the Unishox call in progress
    args,           \* ARGS: the options of a run that restores or backs up
    effects,        \* what the run has pushed to the device or written to files
    unit            \* a call of a helper made on its own, and what it returned

ExitCode_OK == 0
DATA_SIZE_MISMATCH == 4
DATA_CRC_ERROR == 5
UNSUPPORTED_VERSION == 6
RESTORE_DATA_ERROR == 9
RESTORE_SKIPPED == 1
FILE_NOT_FOUND == 3
UPLOAD_CONFIG_ERROR == 11
INTERNAL_ERROR == 21

\* the key of decrypt_encrypt
CONFIG_FILE_XOR == 90

\* 0xffffffff in set_field's mask, without bit 31, which the integers
\* here cannot hold; no bit window word of the settings is wider than 16 bits
WordMask == 2147483647

NewRun(dobj) ==
    [dobj |-> dobj, EXIT_CODE |-> ExitCode_OK, exited |-> FALSE, raised |-> FALSE, log |-> <<>>]

\* exit_: write the message, set the exit code, exit if doexit
exit_(st, status, text, name, value, doexit) ==
    [st EXCEPT !.log = Append(@, [status |-> status, text |-> text, name |-> name, value |-> value]),
               !.EXIT_CODE = status,
               !.exited = doexit]

\* an exception is raised: it propagates until a handler catches it
raise(st) == [st EXCEPT !.raised = TRUE]

\* the element set_fieldvalue packs: the low bits of value (masked), as a
\* negative number when value is negative and they exceed maxsigned
PackValue(value, masked, maxunsigned, maxsigned) ==
    IF value < 0 /\ masked > maxsigned
    THEN ((maxunsigned + 1) - masked) * (-1) ELSE masked

\* struct.pack_into of one element; a refused element is reported
pack_into(st, typ, addr, val) ==
    IF PackFits(typ, val)
    THEN [st EXCEPT !.dobj = PackOne(typ, @, addr, val)]
    ELSE exit_([st EXCEPT !.dobj = PackRefused(@, addr, TypeSize(typ), packzero)],
               RESTORE_DATA_ERROR, "Single type", "", IntV(val), ~ignorewarning)

RECURSIVE PackLoop(_, _, _, _, _)
\* set_fieldvalue's loop over the formatcnt elements of a number format,
\* the last element first: n elements are left, the next one goes to addr
PackLoop(st, fielddef, addr, value, n) ==
    IF n = 0 \/ st.exited THEN st
    ELSE LET bitsize == get_formattype(fielddef.format_)
             maxunsigned == Pow2(bitsize) - 1
         IN PackLoop(pack_into(st, fielddef.format_.typ, addr,
                               PackValue(value, PyAnd(value, maxunsigned), maxunsigned,
                                         Shr(Pow2(bitsize), 1) - 1)),
                     fielddef, addr - (bitsize \div 8), Shr(value, bitsize), n - 1)

\* set_fieldvalue: write a single field value to the buffer at addr
set_fieldvalue(st, fielddef, addr, value) ==
    IF ~IsStringType(fielddef.format_.typ)
    THEN PackLoop(st, fielddef,
                  addr + (get_formattype(fielddef.format_) \div 8)
                           * (get_formatcount(fielddef.format_) - 1),
                  value, get_formatcount(fielddef.format_))
    ELSE [st EXCEPT !.dobj = PackString(@, addr, get_formatcount(fielddef.format_), value)]

RECURSIVE FromHex(_)
\* bytes.fromhex(s)
FromHex(s) ==
    IF Len(s) < 2 THEN <<>>
    ELSE <<HexParse(SubSeq(s, 1, 2), 0)>> \o FromHex(SubSeq(s, 3, Len(s)))

\* the names set_field never stores
NotStored == {"cfg_crc", "cfg_crc32", "cfg_timestamp", "_"}

\* bitvalue <<= bitshift (>>= abs(bitshift) when bitshift is negative)
BitShift(value, bitshift) ==
    IF bitshift >= 0 THEN Shl(value, bitshift) ELSE Shr(value, Abs(bitshift))

\* value &= (0xffffffff ^ mask); value |= bitvalue
BitsWritten(word, bitvalue, bits) == PyOr(PyAnd(word, BitXor(WordMask, bits)), bitvalue)

\* set_field, a number: validation and the write of the number
set_number(st, fieldname, fielddef, value, addr) ==
    IF ~validate_value(value, fielddef)
    THEN exit_(st, RESTORE_DATA_ERROR,
               IF fielddef.bits # 0 THEN "valid bit range exceeding" ELSE "valid range exceeding",
               fieldname, IntV(value), ~ignorewarning)
    ELSE IF fielddef.bits # 0 /\ value > Pow2(fielddef.bits) - 1
    THEN exit_(st, RESTORE_DATA_ERROR, "", fieldname, IntV(value), ~ignorewarning)
    ELSE IF fieldname \in NotStored THEN st
    ELSE set_fieldvalue(st, fielddef, addr,
             IF fielddef.bits = 0 THEN value
             ELSE BitsWritten(UnpackOne(fielddef.format_.typ, st.dobj, addr),
                              BitShift(value, fielddef.bitshift),
                              BitShift(Pow2(fielddef.bits) - 1, fielddef.bitshift)))

\* set_field, a simple value of a number format.  A number of a '<L' field
\* (text of more than 8 digits, or a long) is beyond the integers here:
\* cfg_crc32 is the one such field written to; it is valid and, by its
\* name, never stored.
set_field_number(st, fieldname, fielddef, restoremapping, addroffset) ==
    IF restoremapping.k \in {"dict", "list"}
    THEN exit_(st, RESTORE_DATA_ERROR, "couldn't restore, format may has changed",
               fieldname, None, ~ignorewarning)
    ELSE IF restoremapping.k = "str"
            /\ ~(Len(restoremapping.v) > 2 /\ SubSeq(restoremapping.v, 1, 2) = <<48, 120>>)
    THEN raise(st)
    ELSE IF restoremapping.k = "long" \/ (restoremapping.k = "str" /\ Len(restoremapping.v) > 9)
    THEN st
    ELSE set_number(st, fieldname, fielddef,
                    IF restoremapping.k = "str" THEN IntOfText(restoremapping.v)
                    ELSE restoremapping.v,
                    fielddef.baseaddr + addroffset)

\* the bytes of a restored text: those its hexadecimal digits denote when
\* it starts with NUL (a compressed string), else its characters
StringBytes(text) ==
    IF Len(text) > 4 /\ text[1] = 0 THEN <<0>> \o FromHex(Tail(text)) ELSE text

\* the pieces of the string pool, limited to SET_MAX
PoolPieces(split, set_max) ==
    IF Len(split) >= set_max /\ Len(split) - set_max > 0
    THEN SubSeq(split, 1, IF set_max > 0 THEN set_max ELSE 0)
    ELSE split

\* set_field, a string, with the length of the pool left unchecked
set_string_unchecked(st, fieldname, fielddef, value, new_value, addr) ==
    IF ~(Len(value) <= get_fieldminmax(fielddef)[2] - 1)
    THEN exit_(st, RESTORE_DATA_ERROR, "string length exceeding",
               fieldname, StrV(value), ~ignorewarning)
    ELSE IF fieldname \in NotStored THEN st
    ELSE set_fieldvalue(st, fielddef, addr, new_value)

\* set_field, a string: validation and the write of new_value, the bytes
\* that go to addr (value itself, or the pool with value in its place)
set_string(st, fieldname, fielddef, value, new_value, addr) ==
    IF ~(Len(value) <= get_fieldminmax(fielddef)[2] - 1)
       \/ (fielddef.strindex_name # "" /\ Len(new_value) > get_fieldlength(fielddef))
    THEN exit_(st, RESTORE_DATA_ERROR,
               IF fielddef.strindex_name # "" /\ Len(new_value) > get_fieldlength(fielddef)
               THEN "Text pool overflow" ELSE "string length exceeding",
               fieldname, StrV(value), ~ignorewarning)
    ELSE IF fieldname \in NotStored THEN st
    ELSE set_fieldvalue(st, fielddef, addr, new_value)

\* set_field, an indexed string: sarray[strindex+addroffset] = value
set_indexed(st, fieldname, fielddef, value, sarray, index) ==
    IF PyIndex(sarray, index) = 0 THEN raise(st)
    ELSE set_string(st, fieldname, fielddef, value,
                    Join([sarray EXCEPT ![PyIndex(sarray, index)] = value]),
                    fielddef.baseaddr)

\* set_field, a string: the value to write, the bytes of a compressed
\* string as they are, else what write_converter makes of the text
StringWritten(CONFIG, text, fielddef) ==
    IF Len(text) > 4 /\ text[1] = 0 THEN StrV(StringBytes(text))
    ELSE write_converter(CONFIG, StrV(text), fielddef)

\* set_field, a simple value of a string format; len(value) raises when
\* the write converter has returned False
set_field_string(CONFIG, st, fieldname, fielddef, restoremapping, addroffset) ==
    IF restoremapping.k # "str" THEN raise(st)
    ELSE IF StringWritten(CONFIG, restoremapping.v, fielddef) = FalseV THEN raise(st)
    ELSE IF fielddef.strindex_name # ""
    THEN set_indexed(st, fieldname, fielddef,
                     StringWritten(CONFIG, restoremapping.v, fielddef).v,
                     PoolPieces(Split(UnpackString(st.dobj, fielddef.baseaddr,
                                                   fielddef.format_.cnt), -1),
                                get_strindex(CONFIG, "SET_MAX")),
                     get_strindex(CONFIG, fielddef.strindex_name) + addroffset)
    ELSE set_string(st, fieldname, fielddef,
                    StringWritten(CONFIG, restoremapping.v, fielddef).v,
                    StringWritten(CONFIG, restoremapping.v, fielddef).v,
                    fielddef.baseaddr + addroffset)

RECURSIVE set_field(_, _, _, _, _, _, _)
RECURSIVE set_field_array(_, _, _, _, _, _, _, _)
RECURSIVE set_field_dict(_, _, _, _, _, _, _)

\* set_field's loop over the elements of an array, from element i on
set_field_array(CONFIG, st, config_version, fieldname, fielddef, restoremapping, addroffset, i) ==
    IF i >= fielddef.arraydef[1] \/ st.exited \/ st.raised THEN st
    ELSE IF get_fieldlength(get_subfielddef(fielddef)) # 0 /\ i >= Len(restoremapping.v) THEN st
    ELSE set_field_array(CONFIG,
             IF get_fieldlength(get_subfielddef(fielddef)) = 0 THEN st
             ELSE set_field(CONFIG, st, config_version, fieldname, get_subfielddef(fielddef),
                            restoremapping.v[i + 1],
                            IF fielddef.strindex_name # "" THEN i
                            ELSE addroffset + i * get_fieldlength(get_subfielddef(fielddef))),
             config_version, fieldname, fielddef, restoremapping, addroffset, i + 1)

\* set_field's loop over the names of a dict format, from the i-th on
set_field_dict(CONFIG, st, config_version, fields, restoremapping, addroffset, i) ==
    IF i > Len(fields) \/ st.exited \/ st.raised THEN st
    ELSE set_field_dict(CONFIG,
             IF restoremapping.k # "dict" THEN st
             ELSE IF DictGet(restoremapping.v, fields[i][1]) = None THEN st
             ELSE set_field(CONFIG, st, config_version, fields[i][1], fields[i][2],
                            DictGet(restoremapping.v, fields[i][1]), addroffset),
             config_version, fields, restoremapping, addroffset, i + 1)

\* set_field's handler around the loop over an array: whatever ended the
\* loop (an exception, the exit of the program) is caught and reported
ArrayRestored(tried, fieldname) ==
    IF tried.exited \/ tried.raised
    THEN exit_([tried EXCEPT !.raised = FALSE], RESTORE_DATA_ERROR,
               "couldn't restore, format has changed", fieldname, None, ~ignorewarning)
    ELSE tried

\* set_field: write the restore value(s) of a field to the buffer
set_field(CONFIG, st, config_version, fieldname, fielddef, restoremapping, addroffset) ==
    IF st.exited \/ st.raised THEN st
    ELSE IF ~match(fielddef.hardware, config_version) THEN st
    ELSE IF fielddef.writeconverter = "False" THEN st
    ELSE IF Len(fielddef.arraydef) > 0
    THEN ArrayRestored(
             IF restoremapping.k # "list" THEN raise(st)
             ELSE set_field_array(CONFIG,
                      IF Len(restoremapping.v) > fielddef.arraydef[1]
                      THEN exit_(st, RESTORE_DATA_ERROR, "exceeds max number of elements",
                                 fieldname, IntV(Len(restoremapping.v)), ~ignorewarning)
                      ELSE st,
                      config_version, fieldname, fielddef, restoremapping, addroffset, 0),
             fieldname)
    ELSE IF fielddef.format_.k = "dict"
    THEN set_field_dict(CONFIG, st, config_version, fielddef.format_.fields,
                        restoremapping, addroffset, 1)
    ELSE IF IsStringType(fielddef.format_.typ)
    THEN set_field_string(CONFIG, st, fieldname, fielddef, restoremapping, addroffset)
    ELSE set_field_number(st, fieldname, fielddef, restoremapping, addroffset)

\* ------------------------------------------------------------------------
\* Schema resolution, decode and encode
\* ------------------------------------------------------------------------
\* the definition of the whole setting: (HARDWARE.ESP, template, 0, ...)
RootFielddef(template) ==
    get_fielddef(ESP, DictFormat(template), <<0, 0, 0, "">>, <<<<>>, <<>>>>, <<"None", "None">>)

\* the loop over the settings in ascending order: the entry of the least
\* version not above the version read
covering_least(settings, version) ==
    LET covered == {i \in 1..Len(settings) : version >= settings[i][1]}
    IN IF covered = {} THEN None
       ELSE settings[CHOOSE i \in covered : \A j \in covered : settings[i][1] <= settings[j][1]]

\* the loop with the comparison version > cfg[0]: the entry of the
\* greatest version below the version read
covering_below(settings, version) ==
    LET covered == {i \in 1..Len(settings) : version > settings[i][1]}
    IN IF covered = {} THEN None
       ELSE settings[CHOOSE i \in covered : \A j \in covered : settings[j][1] <= settings[i][1]]

\* for cfg in sorted(SETTINGS, key=lambda s: s[0], reverse=True):
\*     if version >= cfg[0]: ... break
\* the entry the loop stops at, None when it runs to its end
covering(settings, version) ==
    LET covered == {i \in 1..Len(settings) : version >= settings[i][1]}
    IN IF covered = {} THEN None
       ELSE settings[CHOOSE i \in covered : \A j \in covered : settings[j][1] <= settings[i][1]]

\* get_config_info's result.  error is the status get_config_info exits
\* with, 0 if it returns.  A config_version out of range is meant to exit
\* with INVALID_DATA, but building the message evaluates
\* len(HARDWARE.STR), an attribute Hardware does not have: the call raises
\* AttributeError instead (raised).
config_info(version, cfg, config_version) ==
    [hardware |-> config_version,
     version |-> version,
     template_version |-> IF cfg = None THEN version ELSE cfg[1],
     template_size |-> IF cfg = None THEN 0 ELSE cfg[2],
     template |-> IF cfg = None THEN None ELSE cfg[3],
     raised |-> config_version >= Len(config_versions),
     error |-> IF cfg = None THEN UNSUPPORTED_VERSION ELSE ExitCode_OK]

\* identify hardware (config_version): read from the data when the
\* covering setting has the field
identify_hardware(decode_cfg, cfg) ==
    IF cfg = None THEN 0
    ELSE IF DictGet(cfg[3], "config_version") = None THEN 0
    ELSE get_field([template |-> cfg[3]], decode_cfg, ESP, "config_version",
                   DictGet(cfg[3], "config_version"), TRUE, 0, TRUE).v

\* get_config_info's two loops over the settings, both stopping at cfg
search_setting(decode_cfg, version, cfg) ==
    config_info(version, cfg, identify_hardware(decode_cfg, cfg))

\* get_config_info: the setting of the greatest registered version not
\* above the version read, and the hardware the data is from
get_config_info(decode_cfg) ==
    search_setting(decode_cfg, UnpackUnsigned(decode_cfg, 8, 4),
                   covering(SETTINGS, UnpackUnsigned(decode_cfg, 8, 4)))

\* get_settingcrc: the legacy 16 bit checksum, over the bytes of the
\* setting get_config_info resolves
get_settingcrc(dobj) ==
    get_settingcrc_sum(dobj, 0, get_config_info(dobj).template_size) % 65536

\* bin2mapping's reads of cfg_size, cfg_crc and cfg_crc32: None when the
\* template has no such field
HeaderField(config, name) ==
    IF DictGet(config.info.template, name) = None THEN None
    ELSE get_field(config.info, config.decode, ESP, name,
                   DictGet(config.info.template, name), TRUE, 0, TRUE)

\* if read != should: exit_(status, ...)
Expect(st, read, should, status, text, name, doexit) ==
    IF read.v # should THEN exit_(st, status, text, name, read, doexit) ELSE st

\* bin2mapping: check size if exists; a size read above the setting's
\* exits as one below it does, exit_ being called with its default doexit
check_size(config, st, read) ==
    IF read["cfg_size"] = None THEN st
    ELSE IF read["cfg_size"].v > config.info.template_size
    THEN exit_(st, DATA_SIZE_MISMATCH, "Number of bytes read does not match", "cfg_size",
               read["cfg_size"], TRUE)
    ELSE IF read["cfg_size"].v < config.info.template_size
    THEN exit_(st, DATA_SIZE_MISMATCH, "Number of bytes read to small to process", "cfg_size",
               read["cfg_size"], TRUE)
    ELSE st

\* the checksum checks with doexit=False: a mismatch never exits
check_crc_tolerant(st, read, crc, crc32) ==
    IF st.exited THEN st
    ELSE IF read["cfg_crc32"] # None
    THEN Expect(st, read["cfg_crc32"], crc32, DATA_CRC_ERROR, "Data CRC32 error",
                "cfg_crc32", FALSE)
    ELSE IF read["cfg_crc"] # None
    THEN Expect(st, read["cfg_crc"], crc, DATA_CRC_ERROR, "Data CRC error",
                "cfg_crc", FALSE)
    ELSE st

\* bin2mapping: the CRC32 against its field, else the CRC against its field
check_crc(st, read, crc, crc32) ==
    IF st.exited THEN st
    ELSE IF read["cfg_crc32"] # None
    THEN Expect(st, read["cfg_crc32"], crc32, DATA_CRC_ERROR, "Data CRC32 error",
                "cfg_crc32", ~ignorewarning)
    ELSE IF read["cfg_crc"] # None
    THEN Expect(st, read["cfg_crc"], crc, DATA_CRC_ERROR, "Data CRC error",
                "cfg_crc", ~ignorewarning)
    ELSE st

\* CONFIG['valuemapping'].get('scripting_used', 0): the switch as the first
\* call of bin2mapping has read it, 0 when the setting has no such field
scripting_used(config) ==
    IF DictGet(config.info.template, "scripting_used") = None THEN 0
    ELSE get_field(config.info, config.decode, config.info.hardware, "scripting_used",
                   DictGet(config.info.template, "scripting_used"), TRUE, 0, FALSE).v

\* what the converters see of CONFIG: the setting and the values read
Globals(config) ==
    [template |-> config.info.template, scripting_used |-> scripting_used(config)]

\* valuemapping['header']: the checksum and size of the data, the checksum
\* the data carries
Header(config, read, crc) ==
    DictV(<< <<"data", DictV(<< <<"crc", HexFormat(IntV(crc), 1)>>,
                                <<"size", IntV(Cardinality(DOMAIN config.decode))>> >>)>>,
             <<"template", DictV(<< <<"crc", HexFormat(IF read["cfg_crc"] # None
                                                        THEN read["cfg_crc"] ELSE IntV(crc),
                                                        1)>> >>)>> >>)

\* remove keys having empty object (not for raw)
NonEmpty(items, raw) ==
    IF raw THEN items
    ELSE SelectSeq(items, LAMBDA item : ~(item[2].k \in {"dict", "list"} /\ Len(item[2].v) = 0))

\* bin2mapping, after the checks: the mapping of the data with its header
ValueMapping(config, st, raw, read, crc) ==
    [st |-> st,
     valuemapping |->
         IF st.exited THEN None
         ELSE DictV(Append(NonEmpty(get_field(Globals(config), config.decode, config.info.hardware,
                                              "", RootFielddef(config.info.template), raw,
                                              0, ~raw).v,
                                    raw),
                           <<"header", Header(config, read, crc)>>))]

\* bin2mapping with the header fields read and the checksums computed
checked_mapping(config, st, raw, read, crc, crc32) ==
    ValueMapping(config, check_crc(check_size(config, st, read), read, crc, crc32),
                 raw, read, crc)

\* the size the data records is the size of the setting, or the setting
\* has no cfg_size
SizeFits(config) ==
    \/ DictGet(config.info.template, "cfg_size") = None
    \/ UnpackUnsigned(config.decode, DictGet(config.info.template, "cfg_size").baseaddr, 2)
           = config.info.template_size

\* a read of bin2mapping reaches past the end of the data: struct's
\* unpack_from of cfg_crc or cfg_crc32, or dobj[i] in get_settingcrc,
\* raises
ReadPastEnd(config) ==
    \/ \E name \in {"cfg_crc", "cfg_crc32"} :
           /\ DictGet(config.info.template, name) # None
           /\ DictGet(config.info.template, name).baseaddr
                  + get_fieldlength(DictGet(config.info.template, name))
              > Cardinality(DOMAIN config.decode)
    \/ config.info.template_size > Cardinality(DOMAIN config.decode)

\* bin2mapping: the checks (size, checksum) and the mapping of the data;
\* no read of it is inside a try, an exception leaves bin2mapping
bin2mapping(config, st, raw) ==
    IF SizeFits(config) /\ ReadPastEnd(config)
    THEN [st |-> raise(st), valuemapping |-> None]
    ELSE checked_mapping(config, st, raw,
                         [name \in {"cfg_size", "cfg_crc", "cfg_crc32"} |->
                             HeaderField(config, name)],
                         get_settingcrc(config.decode), get_settingcrc32(config.decode))

RECURSIVE mapping2bin_items(_, _, _, _)
\* mapping2bin's loop over the items of the restore data, from the i-th on
mapping2bin_items(config, st, items, i) ==
    IF i > Len(items) \/ st.exited \/ st.raised THEN st
    ELSE mapping2bin_items(config,
             IF DictGet(config.info.template, items[i][1]) # None
             THEN set_field(Globals(config), st, config.info.hardware, items[i][1],
                            DictGet(config.info.template, items[i][1]), items[i][2], 0)
             ELSE IF items[i][1] # "header"
             THEN exit_(st, RESTORE_DATA_ERROR, "contains obsolete name", items[i][1], None,
                        ~ignorewarning)
             ELSE st,
             items, i + 1)

\* mapping2bin returning the data as the loop left it
renew_crc_skipped(template, written) == written

\* mapping2bin, after the loop: CRC32 calc takes precedence over CRC
renew_crc(template, written) ==
    IF written.exited \/ written.raised THEN written
    ELSE IF DictGet(template, "cfg_crc32") # None
    THEN [written EXCEPT !.dobj = Pack32(@, DictGet(template, "cfg_crc32").baseaddr,
                                        get_settingcrc32(written.dobj))]
    ELSE IF DictGet(template, "cfg_crc") # None
    THEN [written EXCEPT !.dobj = PackOne(DictGet(template, "cfg_crc").format_.typ, @,
                                         DictGet(template, "cfg_crc").baseaddr,
                                         get_settingcrc(written.dobj))]
    ELSE written

\* mapping2bin: the data with the restore data written to it and the
\* checksum renewed; the run's buffer is the one returned
mapping2bin(config, st, restoredata) ==
    renew_crc(config.info.template,
              mapping2bin_items(config, [st EXCEPT !.dobj = config.decode], restoredata.v, 1))

\* ------------------------------------------------------------------------
\* The configurations read and the restore data offered
\* ------------------------------------------------------------------------
\* the greatest version number a configuration read carries
MaxVersion == 10
\* the greatest config_version byte a configuration read carries
MaxHardware == 5
\* the length of a configuration read that breaks off before its end
ShortLen == 30
\* the length of a configuration read with bytes after its end
LongLen == 44

\* the first n bytes of the data
Truncate(dobj, n) == [i \in 0..(n - 1) |-> dobj[i]]
\* the data with zero bytes after it, n bytes in all
Extend(dobj, n) == [i \in 0..(n - 1) |-> IF i \in DOMAIN dobj THEN dobj[i] ELSE 0]

\* versions read that lie below, at, between and far above the versions
\* of the settings
ObservedVersions == {0, 1, 3, 5, 8, 9, 50}

\* a buffer with the bytes of pokes, a sequence of <<address, byte>>, set;
\* the last poke of an address is the one that stays
Poke(dobj, pokes) ==
    [i \in DOMAIN dobj |->
        LET at == {n \in 1..Len(pokes) : pokes[n][1] = i}
        IN IF at = {} THEN dobj[i] ELSE pokes[CHOOSE n \in at : \A m \in at : m <= n][2]]

\* the checksum as the device writes it: the CRC32 when the setting has
\* the field, else the legacy checksum when it has that field
WriteCrc(dobj, template) ==
    IF template = None THEN dobj
    ELSE IF DictGet(template, "cfg_crc32") # None
    THEN Pack32(dobj, Size - 4, get_settingcrc32(dobj))
    ELSE IF DictGet(template, "cfg_crc") # None
    THEN PackOne("H", dobj, 14, get_settingcrc(dobj))
    ELSE dobj

FixCrc(dobj) == WriteCrc(dobj, get_config_info(dobj).template)

\* a configuration of the version, from the hardware, with every other
\* field zero but for the bytes of pokes
Mk(ver, hw, pokes) ==
    Poke([i \in 0..(Size - 1) |-> 0], <<<<2, Size>>, <<8, ver>>, <<27, hw>>>> \o pokes)

\* field contents the configurations read vary in, one field each
Pokes ==
    { <<>>,
      <<<<0, 1>>, <<1, 2>>>>,                 \* cfg_holder 0x0201
      <<<<16, 2>>>>,                          \* display_size 2
      <<<<16, 9>>>>,                          \* display_size 9, against its validator
      <<<<17, 243>>>>,                        \* timezone -13
      <<<<17, 99>>>>,                         \* timezone 99
      <<<<18, 53>>, <<19, 18>>>>,             \* tflag[0] 0x1235: 1, 2, 3, 2, 2
      <<<<19, 128>>, <<20, 16>>>>,            \* tflag[0] hour 16, tflag[1] month 1
      <<<<18, 255>>, <<19, 255>>>>,           \* tflag[0] 0xffff, month 15
      <<<<22, 5>>>>,                          \* webcam_config stream 1, contrast 1
      <<<<23, 128>>>>,                        \* webcam_config resolution 8
      <<<<24, 1>>, <<25, 2>>, <<26, 3>>>>,    \* web_color 0x010203
      <<<<28, 65>>>>,                         \* "A"
      <<<<28, 65>>, <<30, 66>>, <<31, 67>>>>, \* "A", "BC"
      <<<<28, 65>>, <<29, 66>>, <<30, 67>>, <<31, 68>>, <<32, 69>>, <<33, 70>>,
        <<35, 71>>>>,                         \* "ABCDEF", "G": the pool is full
      <<<<28, 1>>, <<29, 65>>>>,              \* a control character
      <<<<4, 83>>>>,                          \* the script "S", scripting not used
      <<<<4, 83>>, <<12, 128>>>> }            \* the script "S", scripting used

\* the configurations read: every version with its checksum right, every
\* hardware, the field contents in the settings that differ,
\* configurations whose checksum or recorded size is wrong, and
\* configurations that break off before their end or go on after it
Buffers ==
    {FixCrc(dobj) : dobj \in
        {Mk(ver, 0, <<>>) : ver \in (0..MaxVersion) \cup ObservedVersions}
        \cup {Mk(9, hw, pokes) : hw \in 0..1, pokes \in Pokes}
        \cup {Mk(9, hw, <<>>) : hw \in 2..MaxHardware}
        \cup {Mk(ver, 0, pokes) : ver \in {1, 2},
                                  pokes \in {p \in Pokes : p # <<>> /\ p[1][1] >= 28}}
        \cup {Mk(ver, 0, <<<<2, size>>>>) : ver \in {2, 9}, size \in {Size - 1, Size + 1}}}
    \cup {Mk(ver, 0, <<<<16, 2>>>>) : ver \in {2, 5, 9}}
    \cup {Truncate(FixCrc(Mk(ver, 0, <<>>)), ShortLen) : ver \in {2, 9}}
    \cup {Extend(FixCrc(Mk(ver, 0, <<>>)), LongLen) : ver \in {2, 9}}

\* a restore data with one name
Offer1(name, value) == DictV(<< <<name, value>> >>)
\* a restore data for a field of the first element of tflag
TflagOffer(name, value) == Offer1("tflag", ListV(<<Offer1(name, value)>>))
\* a restore data for a field of webcam_config
WebcamOffer(name, value) == Offer1("webcam_config", Offer1(name, value))

\* the numbers offered
OfferInts == {-32769, -1, 0, 1, 5, 300, 65541}
\* the texts offered: "", "A", "ABCDEFG", "ABCDEFGH", and "\x004142"
OfferTexts ==
    { <<>>, <<65>>, <<65, 66, 67, 68, 69, 70, 71>>, <<65, 66, 67, 68, 69, 70, 71, 72>>,
      <<0, 52, 49, 52, 50>> }

TopNumbers == {"cfg_holder", "display_size", "timezone", "web_color"}
TflagNumbers == {"hemis", "week", "month", "dow", "hour"}
WebcamNumbers == {"stream", "contrast", "resolution"}
TextNames == {"ota_url", "mqtt_host"}
\* fields whose write converter is False
ReadOnlyNames == {"cfg_size", "config_version", "scripting_used"}
\* the scripts offered: "" and "T"
OfferScripts == { <<>>, <<84>> }

\* the restore data offered: the mapping decoded, a single field with a
\* number or a text, a name no setting has, a number where a list belongs,
\* a number for a read-only field, a script
Offers(mapping) ==
    {mapping}
    \cup {Offer1(name, IntV(v)) : name \in TopNumbers, v \in OfferInts}
    \cup {TflagOffer(name, IntV(v)) : name \in TflagNumbers, v \in OfferInts}
    \cup {WebcamOffer(name, IntV(v)) : name \in WebcamNumbers, v \in OfferInts}
    \cup {Offer1(name, StrV(t)) : name \in TextNames, t \in OfferTexts}
    \cup {Offer1("obsolete", IntV(1)), Offer1("tflag", IntV(1))}
    \cup {Offer1(name, IntV(1)) : name \in ReadOnlyNames}
    \cup {Offer1("script", StrV(t)) : t \in OfferScripts}

\* ------------------------------------------------------------------------
\* The main flow
\* ------------------------------------------------------------------------
vars == <<pc, decode, info, groupmapping, jsonconfig, run, ignorewarning, packzero, usx, args, effects, unit>>

\* where the flow is after an operation that left the run record st
After(st, next) == IF st.raised THEN "raised" ELSE IF st.exited THEN "exit" ELSE next

\* a refused struct.pack_into clears the field in CPython; what another
\* implementation leaves shows only when the run goes on
Init ==
    /\ pc = "start"
    /\ decode \in Buffers
    /\ info = None
    /\ groupmapping = None
    /\ jsonconfig = None
    /\ run = NewRun(decode)
    /\ ignorewarning \in BOOLEAN
    /\ packzero \in (IF ignorewarning THEN BOOLEAN ELSE {TRUE})
    /\ usx = None
    /\ args = None
    /\ effects = <<>>
    /\ unit = None

\* CONFIG['info'] = get_config_info(CONFIG['decode'])
GetConfigInfo ==
    /\ pc = "start"
    /\ \E i \in {get_config_info(decode)} :
       \E st \in {IF i.raised THEN raise(run)
                  ELSE IF i.error # ExitCode_OK
                  THEN exit_(run, i.error, "version not supported", "version",
                             IntV(i.version), TRUE)
                  ELSE run} :
          /\ run' = st
          /\ info' = IF st.raised \/ st.exited THEN None ELSE i
          /\ pc' = After(st, "info")
    /\ UNCHANGED <<decode, groupmapping, jsonconfig, ignorewarning, packzero, usx, args, effects, unit>>

RECURSIVE bin2mapping_each(_, _, _)
\* bin2mapping for each raw of raws in turn, on the run the one before
\* left: the last call's result
bin2mapping_each(config, st, raws) ==
    IF Len(raws) = 1 \/ st.exited THEN bin2mapping(config, st, raws[1])
    ELSE bin2mapping_each(config, bin2mapping(config, st, raws[1]).st, Tail(raws))

\* CONFIG['valuemapping'] = bin2mapping(CONFIG, raw=True)
\* CONFIG['groupmapping'] = bin2mapping(CONFIG, raw=False)
Bin2Mapping ==
    /\ pc = "info"
    /\ \E mapping \in {bin2mapping_each([decode |-> decode, info |-> info], run,
                                        <<TRUE, FALSE>>)} :
          /\ run' = mapping.st
          /\ groupmapping' = mapping.valuemapping
          /\ pc' = After(mapping.st, "mapped")
    /\ UNCHANGED <<decode, info, jsonconfig, ignorewarning, packzero, usx, args, effects, unit>>

\* the greatest version of the settings
newest(settings) ==
    settings[CHOOSE i \in 1..Len(settings) :
                 \A j \in 1..Len(settings) : settings[j][1] <= settings[i][1]][1]

\* sorted(SETTINGS, key=lambda s: s[0], reverse=True)[0][0]
SUPPORTED_VERSION == newest(SETTINGS)

\* check version compatibility
CheckVersion ==
    /\ pc = "mapped"
    /\ \E st \in {IF info.version > SUPPORTED_VERSION /\ ~ignorewarning
                  THEN exit_(run, UNSUPPORTED_VERSION, "currently unsupported", "version",
                             IntV(info.version), ~ignorewarning)
                  ELSE run} :
          /\ run' = st
          /\ pc' = After(st, "checked")
    /\ UNCHANGED <<decode, info, groupmapping, jsonconfig, ignorewarning, packzero, usx, args, effects, unit>>

\* new_decode_cfg = mapping2bin(config, jsonconfig, restorefilename)
Mapping2Bin ==
    /\ pc = "checked"
    /\ \E offer \in Offers(groupmapping) :
       \E st \in {mapping2bin([decode |-> decode, info |-> info], run, offer)} :
          /\ jsonconfig' = offer
          /\ run' = st
          /\ pc' = After(st, "encoded")
    /\ UNCHANGED <<decode, info, groupmapping, ignorewarning, packzero, usx, args, effects, unit>>

Next == GetConfigInfo \/ Bin2Mapping \/ CheckVersion \/ Mapping2Bin

Spec == Init /\ [][Next]_vars

\* ------------------------------------------------------------------------
\* Unishox: the tables and the bit writer
\* ------------------------------------------------------------------------
\* code (upper 12 bits) and length (lower 4 bits) of the characters 32..126
cl_95 ==
    << 16387, 16267, 15755, 15498, 15340, 16010, 16203, 16074, 15275, 15307, 15723, 15211,
       14986, 15050, 14857, 15114, 14538, 14602, 14667, 14699, 14731, 14763, 14795, 14828,
       14844, 14474, 15562, 15369, 15626, 15881, 16138, 15179, 15356, 11016, 8651, 8394,
       8458, 9735, 8971, 8684, 8523, 11528, 18109, 9036, 8330, 8619, 11784, 11272,
       8587, 18093, 12169, 12041, 10760, 8555, 9020, 8700, 18125, 9004, 18141, 15852,
       16299, 15868, 15691, 16235, 16380, 45060, 7175, 3078, 4102, 24579, 12295, 7688,
       5127, 53252, 13705, 13320, 2054, 6663, 57348, 49156, 6151, 13577, 63493, 61445,
       40964, 5639, 13064, 7944, 13833, 12808, 13961, 15787, 16331, 15819, 16364 >>

SHX_STATE_1 == 1
SHX_STATE_2 == 2

SHX_SET1 == 0
SHX_SET1A == 1
SHX_SET1B == 2
SHX_SET2 == 3

\* ord() of the characters of the seven sets
sets ==
    << <<0, 32, 101, 0, 116, 97, 111, 105, 110, 115, 114>>,
       <<0, 108, 99, 100, 104, 117, 112, 109, 98, 103, 119>>,
       <<102, 121, 118, 107, 113, 106, 120, 122, 0, 0, 0>>,
       <<0, 57, 48, 49, 50, 51, 52, 53, 54, 55, 56>>,
       <<46, 44, 45, 47, 63, 43, 32, 40, 41, 36, 64>>,
       <<59, 35, 58, 60, 94, 42, 34, 123, 125, 91, 93>>,
       <<61, 37, 39, 62, 38, 95, 33, 92, 124, 126, 96>> >>

\* length + (index << 3) of the vertical and the horizontal codes, by the
\* bits read so far (first bit lowest)
us_vcode ==
    << 2, 27, 11, 52, 0, 36, 19, 68, 0, 0, 0, 60, 0, 44, 0, 77,
       0, 0, 0, 0, 0, 0, 0, 0, 0, 0, 0, 0, 0, 0, 0, 85 >>

us_hcode ==
    << 9, 2, 0, 19, 0, 0, 0, 29, 0, 0, 0, 0, 0, 0, 0, 45,
       0, 0, 0, 0, 0, 0, 0, 37, 0, 0, 0, 0, 0, 0, 0, 53 >>

\* 0x2A
ESCAPE_MARKER == 42
\* 0x37C0
TERM_CODE == 14272
DICT_CODE == 0
DICT_CODE_LEN == 5
\* 0x3780
RPT_CODE_TASMOTA == 14208
RPT_CODE_TASMOTA_LEN == 10
\* 0x2000
BACK2_STATE1_CODE == 8192
BACK2_STATE1_CODE_LEN == 4
\* 0x3700
LF_CODE == 14080
LF_CODE_LEN == 9
\* 0x2200
ALL_UPPER_CODE == 8704
ALL_UPPER_CODE_LEN == 8
\* 0x3800
SW2_STATE2_CODE == 14336
SW2_STATE2_CODE_LEN == 7
\* 0x3B80
ST2_SPC_CODE == 15232
ST2_SPC_CODE_LEN == 11
\* 0x8000
BIN_CODE_TASMOTA == 32768
BIN_CODE_TASMOTA_LEN == 3

NICE_LEN == 5

mask == <<128, 192, 224, 240, 248, 252, 254, 255>>

\* inn[i] and out[i] of the code count from 0
At(s, i) == s[i + 1]

\* a call of compress or decompress at work: the output buffer, the
\* position in it (bits in compress, bytes in decompress), whether it
\* returned and what, whether an exception ended it (fault), and whether it
\* touched the output at an index that is not in 0..len_out-1 (outside)
Fault(c) == [c EXCEPT !.fault = TRUE, !.done = TRUE]

Return(c, value) == [c EXCEPT !.done = TRUE, !.ret = value]

\* out[index] = byte: IndexError beyond the buffer, ValueError for a byte
\* that is not in range(256)
write(c, index, byte) ==
    IF c.fault THEN c
    ELSE IF index >= Len(c.out) THEN Fault([c EXCEPT !.outside = TRUE])
    ELSE IF byte < 0 \/ byte > 255 THEN Fault(c)
    ELSE [c EXCEPT !.out[index + 1] = byte]

\* ol += n, unless the statement before it raised
advance(c, n) == IF c.fault THEN c ELSE [c EXCEPT !.ol = @ + n]

\* append_bits: out[ol // 8] = a_byte at a byte boundary, |= a_byte inside
put_bits(c, a_byte) ==
    IF c.ol % 8 = 0 \/ c.ol \div 8 >= Len(c.out)
    THEN write(c, c.ol \div 8, a_byte)
    ELSE write(c, c.ol \div 8, BitOr(At(c.out, c.ol \div 8), a_byte))

\* append_bits: the bits one round of the loop takes of a code of clen bits
blen(ol, clen) ==
    IF (IF clen > 8 THEN 8 ELSE clen) + (ol % 8) > 8 THEN 8 - (ol % 8)
    ELSE IF clen > 8 THEN 8 ELSE clen

\* a bit writer that leaves a completed byte as it is
escape_none(c) == c

\* append_bits, "we completed a full byte": a byte 0 or ESCAPE_MARKER
\* becomes the marker followed by the byte + 1
escape(c) ==
    IF c.fault \/ c.ol % 8 # 0 THEN c
    ELSE IF At(c.out, c.ol \div 8 - 1) \notin {0, ESCAPE_MARKER} THEN c
    ELSE advance(write(write(c, c.ol \div 8, 1 + At(c.out, c.ol \div 8 - 1)),
                       c.ol \div 8 - 1, ESCAPE_MARKER), 8)

\* append_bits, the while loop; only the bits 8..15 of code are read, so
\* the shifted code is kept to 16 bits
RECURSIVE append_loop(_, _, _)
append_loop(c, code, clen) ==
    IF clen <= 0 \/ c.fault THEN c
    ELSE append_loop(
             escape(advance(put_bits(c, Shr(BitAnd(Shr(code, 8),
                                                   mask[IF clen > 8 THEN 8 ELSE clen]),
                                            c.ol % 8)),
                            blen(c.ol, clen))),
             Shl(code, blen(c.ol, clen)) % 65536,
             clen - blen(c.ol, clen))

append_bits(c, code, clen, state) ==
    IF state = SHX_STATE_2 /\ Shr(code, 9) = 28
    THEN append_loop(c, Shl(code, 7) % 65536, clen - 7)
    ELSE append_loop(c, code, clen)

codes == <<130, 195, 229, 237, 245>>
bit_len == <<5, 7, 9, 12, 16>>

\* till after i rounds of the loops of encodeCount and readCount
RECURSIVE Till(_)
Till(i) == IF i = 0 THEN 0 ELSE Till(i - 1) + Pow2(bit_len[i])

\* encodeCount, the round (counted from 1) in which count < till
encode_in(c, count, i) ==
    append_bits(append_bits(c, Shl(BitAnd(codes[i], 248), 8), BitAnd(codes[i], 7), 1),
                Shl(count - Till(i - 1), 16 - bit_len[i]), bit_len[i], 1)

encodeCount(c, count) ==
    IF \A i \in 1..Len(bit_len) : count >= Till(i) THEN c
    ELSE encode_in(c, count,
                   CHOOSE i \in 1..Len(bit_len) :
                       count < Till(i) /\ \A j \in 1..(i - 1) : count >= Till(j))

\* matchOccurance: the k its inner loop ends with, the first from l_ on
\* that has no character or does not repeat the one l_ - j before it
match_end(inn, len_, l_, j) ==
    CHOOSE k \in l_..len_ :
        /\ ~(k < len_ /\ j + k - l_ < l_ /\ At(inn, k) = At(inn, j + k - l_))
        /\ \A m \in l_..(k - 1) : j + m - l_ < l_ /\ At(inn, m) = At(inn, j + m - l_)

\* match_len of the round of j
match_len(inn, len_, l_, j) == match_end(inn, len_, l_, j) - l_ - NICE_LEN

\* the rounds of j that set match_len and could set longest_len
matches(inn, len_, l_) ==
    {j \in 0..(l_ - NICE_LEN) : match_len(inn, len_, l_, j) > 0}

\* matchOccurance: <<longest_len, longest_dist>> after the loop, which
\* runs j downwards and keeps the first of the longest matches
longest_of(inn, len_, l_, js) ==
    IF js = {} THEN <<0, 0>>
    ELSE CHOOSE longest \in {<<match_len(inn, len_, l_, j), l_ - j - NICE_LEN + 1>> : j \in js} :
             \A j \in js :
                 \/ match_len(inn, len_, l_, j) < longest[1]
                 \/ /\ match_len(inn, len_, l_, j) = longest[1]
                    /\ l_ - j - NICE_LEN + 1 >= longest[2]

longest_match(inn, len_, l_) == longest_of(inn, len_, l_, matches(inn, len_, l_))

\* "back to lower case and Set1" before a dictionary or a repeat code
back2state1(c) ==
    IF c.state = SHX_STATE_2 \/ c.is_all_upper
    THEN append_bits([c EXCEPT !.is_all_upper = FALSE, !.state = SHX_STATE_1],
                     BACK2_STATE1_CODE, BACK2_STATE1_CODE_LEN, SHX_STATE_1)
    ELSE c

\* l += n
moved(c, n) == IF c.fault THEN c ELSE [c EXCEPT !.l = @ + n]

\* matchOccurance from the search on; l is negated when nothing matched
matched(c, longest) ==
    IF longest[1] = 0 THEN [c EXCEPT !.l = -@]
    ELSE moved(encodeCount(encodeCount(append_bits(back2state1(c), DICT_CODE,
                                                   DICT_CODE_LEN, 1),
                                       longest[1]),
                           longest[2]),
               longest[1] + NICE_LEN - 1)

matchOccurance(inn, len_, c) ==
    matched(c, longest_match(inn, len_, c.l))

\* ------------------------------------------------------------------------
\* Unishox.compress
\* ------------------------------------------------------------------------
\* c_in equals the character before it and the three after it
is_run(inn, len_, l) ==
    /\ l # 0
    /\ l < len_ - 4
    /\ At(inn, l) = At(inn, l - 1)
    /\ At(inn, l) = At(inn, l + 1)
    /\ At(inn, l) = At(inn, l + 2)
    /\ At(inn, l) = At(inn, l + 3)

\* rpt_count when its loop ends: the first index from l + 4 on that has
\* no character or another one
run_end(inn, len_, from, c_in) ==
    CHOOSE rpt_count \in from..len_ :
        /\ ~(rpt_count < len_ /\ At(inn, rpt_count) = c_in)
        /\ \A m \in from..(rpt_count - 1) : At(inn, m) = c_in

repeated(c, rpt_count) ==
    moved(encodeCount(append_bits(back2state1(c), RPT_CODE_TASMOTA,
                                  RPT_CODE_TASMOTA_LEN, 1),
                      rpt_count - 4),
          rpt_count)

\* the characters that do not end Set2: ' '..'@', '['..'`', '{'..'~'
in_set2(c_in) ==
    \/ 32 <= c_in /\ c_in <= 64
    \/ 91 <= c_in /\ c_in <= 96
    \/ 123 <= c_in /\ c_in <= 126

leave_set2(c, c_in) ==
    IF c.state = SHX_STATE_2 /\ ~in_set2(c_in)
    THEN append_bits([c EXCEPT !.state = SHX_STATE_1],
                     BACK2_STATE1_CODE, BACK2_STATE1_CODE_LEN, SHX_STATE_1)
    ELSE c

is_upper(c_in) == 65 <= c_in /\ c_in <= 90

leave_upper(c, c_in) ==
    IF ~is_upper(c_in) /\ c.is_all_upper
    THEN append_bits([c EXCEPT !.is_all_upper = FALSE],
                     BACK2_STATE1_CODE, BACK2_STATE1_CODE_LEN, c.state)
    ELSE c

\* ll when the loop over the next six characters ends
RECURSIVE upper_end(_, _, _, _)
upper_end(inn, len_, l, ll) ==
    IF l <= ll /\ ll < len_ /\ is_upper(At(inn, ll))
    THEN upper_end(inn, len_, l, ll - 1) ELSE ll

caps_lock(inn, len_, c, c_in) ==
    IF is_upper(c_in) /\ ~c.is_all_upper /\ upper_end(inn, len_, c.l, c.l + 5) = c.l - 1
    THEN [append_bits(c, ALL_UPPER_CODE, ALL_UPPER_CODE_LEN, c.state)
             EXCEPT !.is_all_upper = TRUE]
    ELSE c

switch_set2(c, c_in) ==
    IF c.state = SHX_STATE_1 /\ 48 <= c_in /\ c_in <= 57
    THEN [append_bits(c, SW2_STATE2_CODE, SW2_STATE2_CODE_LEN, c.state)
             EXCEPT !.state = SHX_STATE_2]
    ELSE c

\* the code of cl_95[c_in]; c_in has 32 taken off, except for an upper
\* case letter under CapsLock
printable(c, c_in) ==
    IF c_in = 0 /\ c.state = SHX_STATE_2
    THEN append_bits(c, ST2_SPC_CODE, ST2_SPC_CODE_LEN, c.state)
    ELSE append_bits(c,
                     IF BitAnd(At(cl_95, c_in), 15) = 13
                     THEN Shr(BitAnd(At(cl_95, c_in), 65520), 1)
                     ELSE BitAnd(At(cl_95, c_in), 65520),
                     BitAnd(At(cl_95, c_in), 15), c.state)

cased(c, c_in) ==
    printable(c, IF c.is_all_upper /\ is_upper(c_in) THEN c_in ELSE c_in - 32)

\* the branches on c_in; c_in == '\t' compares a number of the bytes input
\* with a string and never holds
literal(inn, len_, c, c_in) ==
    IF 32 <= c_in /\ c_in <= 126
    THEN cased(switch_set2(caps_lock(inn, len_, c, c_in), c_in), c_in)
    ELSE IF c_in = 10 THEN append_bits(c, LF_CODE, LF_CODE_LEN, c.state)
    ELSE encodeCount(append_bits(c, BIN_CODE_TASMOTA, BIN_CODE_TASMOTA_LEN, c.state),
                     BitAnd(255 - c_in, 255))

\* "check that we have some headroom in the output buffer"
headroom(c, len_out) ==
    IF c.fault THEN c
    ELSE IF c.ol \div 8 >= len_out - 4 THEN Return(c, -1)
    ELSE moved(c, 1)

\* the loop body from the result of matchOccurance on; a search that was
\* not made counts as one that matched nothing
after_match(inn, len_, len_out, c) ==
    IF c.fault THEN c
    ELSE IF c.l > 0 THEN moved(c, 1)
    ELSE headroom(literal(inn, len_,
                          leave_upper(leave_set2([c EXCEPT !.l = -@], At(inn, -c.l)),
                                      At(inn, -c.l)),
                          At(inn, -c.l)),
                  len_out)

compress_char(inn, len_, len_out, c) ==
    IF is_run(inn, len_, c.l)
    THEN repeated(c, run_end(inn, len_, c.l + 4, At(inn, c.l)) - c.l)
    ELSE after_match(inn, len_, len_out,
                     IF c.l < len_ - NICE_LEN + 1 THEN matchOccurance(inn, len_, c)
                     ELSE [c EXCEPT !.l = -@])

\* a round of the while loop, if there is one more
compress_round(inn, len_, len_out, c) ==
    IF c.fault \/ c.done \/ c.l >= len_ THEN c
    ELSE compress_char(inn, len_, len_out, c)

\* n rounds of the while loop, the second half from the state the first
\* half left
RECURSIVE compress_rounds(_, _, _, _, _)
compress_rounds(inn, len_, len_out, c, n) ==
    IF n <= 1 THEN compress_round(inn, len_, len_out, c)
    ELSE CHOOSE r \in {compress_rounds(inn, len_, len_out, half, n - (n \div 2)) :
                          half \in {compress_rounds(inn, len_, len_out, c, n \div 2)}} : TRUE

\* after the loop: the closing bits of TERM_CODE and the count of bytes
terminated(c) ==
    IF c.fault \/ c.done THEN c ELSE Return(c, (c.ol + 7) \div 8)

closed(c) ==
    IF c.fault \/ c.done \/ c.ol % 8 = 0 THEN c
    ELSE append_bits(c, TERM_CODE, 8 - (c.ol % 8), 1)

\* every round moves l on, so len_ rounds end the loop
compress_loop(inn, len_, len_out, c) ==
    terminated(closed(compress_rounds(inn, len_, len_out, c, len_)))

compress(inn, len_, out, len_out) ==
    compress_loop(inn, len_, len_out,
                  [out |-> out, ol |-> 0, state |-> SHX_STATE_1, is_all_upper |-> FALSE,
                   l |-> 0, done |-> FALSE, ret |-> 0, fault |-> FALSE,
                   outside |-> FALSE])

\* ------------------------------------------------------------------------
\* Unishox.decompress
\* ------------------------------------------------------------------------
\* a reader of bits that takes the byte after an escape marker as it is
getBitVal_unescaped(inn, bit_no, count) ==
    IF PyAnd(At(inn, Shr(bit_no, 3)), Shr(128, bit_no % 8)) # 0
    THEN Pow2(count) ELSE 0

\* the byte after an escape marker counts one less
getBitVal(inn, bit_no, count) ==
    IF PyAnd(At(inn, Shr(bit_no, 3))
                 - (IF Shr(bit_no, 3) # 0 /\ At(inn, Shr(bit_no, 3) - 1) = ESCAPE_MARKER
                    THEN 1 ELSE 0),
             Shr(128, bit_no % 8)) # 0
    THEN Pow2(count) ELSE 0

\* "detect marker": bit_no_p += 8
skip_marker(inn, bit_no_p) ==
    IF At(inn, Shr(bit_no_p, 3)) = ESCAPE_MARKER THEN bit_no_p + 8 ELSE bit_no_p

\* getCodeIdx: <<index, bit_no_p>>; the rounds of its loop from the check
\* for the end of the stream, from the read of the bit, and from the look
\* into code_type
RECURSIVE code_loop(_, _, _, _, _, _)
RECURSIVE code_bit(_, _, _, _, _, _)
RECURSIVE code_found(_, _, _, _, _, _)
code_loop(code_type, inn, len_, bit_no_p, code, count) ==
    IF count >= 5 THEN <<1, bit_no_p>>
    ELSE IF bit_no_p >= len_ THEN <<-1, bit_no_p>>
    ELSE code_bit(code_type, inn, len_, skip_marker(inn, bit_no_p), code, count)

code_bit(code_type, inn, len_, bit_no_p, code, count) ==
    IF bit_no_p >= len_ THEN <<-1, bit_no_p>>
    ELSE code_found(code_type, inn, len_, bit_no_p + 1,
                    code + getBitVal(inn, bit_no_p, count), count + 1)

code_found(code_type, inn, len_, bit_no_p, code, count) ==
    IF At(code_type, code) # 0 /\ BitAnd(At(code_type, code), 7) = count
    THEN <<Shr(At(code_type, code), 3), bit_no_p>>
    ELSE code_loop(code_type, inn, len_, bit_no_p, code, count)

getCodeIdx(code_type, inn, len_, bit_no_p) ==
    code_loop(code_type, inn, len_, bit_no_p, 0, 0)

\* getNumFromBits: <<ret, bit_no_p, read>>; read is FALSE when inn[] was
\* indexed beyond the input (IndexError)
RECURSIVE num_loop(_, _, _, _)
RECURSIVE num_bit(_, _, _, _)
num_loop(inn, bit_no_p, count, ret) ==
    IF count = 0 THEN <<ret, bit_no_p, TRUE>>
    ELSE IF Shr(bit_no_p, 3) >= Len(inn) THEN <<ret, bit_no_p, FALSE>>
    ELSE num_bit(inn, skip_marker(inn, bit_no_p), count - 1, ret)

num_bit(inn, bit_no_p, count, ret) ==
    IF Shr(bit_no_p, 3) >= Len(inn) THEN <<ret, bit_no_p, FALSE>>
    ELSE num_loop(inn, bit_no_p + 1, count, ret + getBitVal(inn, bit_no_p, count))

getNumFromBits(inn, bit_no_p, count) == num_loop(inn, bit_no_p, count, 0)

\* readCount from the horizontal code on: "we skip v = 1", then the base
\* and the width of the count
counted(inn, bit_no_p, idx) ==
    IF idx >= 5 \/ idx < 0 THEN <<0, bit_no_p, TRUE>>
    ELSE [getNumFromBits(inn, bit_no_p, At(bit_len, idx)) EXCEPT ![1] = @ + Till(idx)]

count_from(inn, r) == counted(inn, r[2], IF r[1] >= 1 THEN r[1] - 1 ELSE r[1])

readCount(inn, bit_no_p, len_) == count_from(inn, getCodeIdx(us_hcode, inn, len_, bit_no_p))

\* out[ol + i] = out[ol - dist + i]: Python counts a negative index from
\* the end of the buffer
copy_byte(c, from, to) ==
    IF from >= Len(c.out) \/ from < -Len(c.out) THEN Fault([c EXCEPT !.outside = TRUE])
    ELSE write([c EXCEPT !.outside = @ \/ from < 0], to,
               At(c.out, IF from < 0 THEN Len(c.out) + from ELSE from))

RECURSIVE copy(_, _, _, _)
copy(c, dict_len, dist, i) ==
    IF i >= dict_len \/ c.fault THEN c
    ELSE copy(copy_byte(c, c.ol - dist + i, c.ol + i), dict_len, dist, i + 1)

\* decodeRepeat from the second readCount on
repeat_dist(c, dict_len, r) ==
    IF ~r[3] THEN Fault(c)
    ELSE advance(copy([c EXCEPT !.bit_no = r[2]], dict_len, r[1] + NICE_LEN - 1, 0),
                 dict_len)

\* decodeRepeat from the first readCount on
repeat_len(inn, len_, c, r) ==
    IF ~r[3] THEN Fault(c)
    ELSE repeat_dist(c, r[1] + NICE_LEN, readCount(inn, r[2], len_))

decodeRepeat(inn, len_, c) == repeat_len(inn, len_, c, readCount(inn, c.bit_no, len_))

\* out[ol] = 255 - temp; ol += 1
binary(c, r) ==
    IF ~r[3] THEN Fault(c)
    ELSE advance(write([c EXCEPT !.bit_no = r[2]], c.ol, 255 - r[1]), 1)

\* rpt_c = out[ol - 1], written count times; out[-1] is the last byte
filled(c, count, rpt_c) ==
    [c EXCEPT !.out = [i \in 1..Len(@) |->
                          IF c.ol < i /\ i <= c.ol + count THEN rpt_c ELSE @[i]],
              !.ol = @ + count,
              !.outside = @ \/ c.ol = 0]

\* "was CRLF, now RPT"
repeat(c, r, len_out) ==
    IF ~r[3] THEN Fault(c)
    ELSE IF c.ol + r[1] + 4 >= len_out THEN Return([c EXCEPT !.bit_no = r[2]], -1)
    ELSE filled([c EXCEPT !.bit_no = r[2]], r[1] + 4,
                At(c.out, IF c.ol = 0 THEN Len(c.out) - 1 ELSE c.ol - 1))

\* out[ol] = c; ol += 1; "overflow" when the buffer is full
overflow(c, len_out) ==
    IF c.fault THEN c
    ELSE IF c.ol >= len_out THEN Return(c, -1)
    ELSE c

put(c, byte, len_out) == overflow(advance(write(c, c.ol, byte), 1), len_out)

\* what the head of the loop body decided: to leave the loop ("break"), to
\* go to the next round ("continue"), or the codes v and h of a character
Code(op, v, h, upper, bit_no, dstate, is_all_upper) ==
    [op |-> op, v |-> v, h |-> h, is_upper |-> upper, bit_no |-> bit_no,
     dstate |-> dstate, is_all_upper |-> is_all_upper]

\* "we changed set, now read vCode for char"
vcode3(c, h, upper, r) ==
    Code(IF r[1] < 0 THEN "break" ELSE "char", r[1], h, upper, r[2],
         c.dstate, c.is_all_upper)

\* "read second hCode": "If double Switch Set1, the CapsLock"
hcode2(inn, len_, c, r) ==
    IF r[1] < 0 THEN Code("break", 0, r[1], FALSE, r[2], c.dstate, c.is_all_upper)
    ELSE IF r[1] = SHX_SET1 THEN Code("continue", 0, r[1], FALSE, r[2], c.dstate, TRUE)
    ELSE vcode3(c, r[1], TRUE, getCodeIdx(us_vcode, inn, len_, r[2]))

\* "read again vCode"
vcode2(inn, len_, c, r) ==
    IF r[1] < 0 THEN Code("break", r[1], SHX_SET1, FALSE, r[2], c.dstate, c.is_all_upper)
    ELSE IF r[1] # 0 THEN Code("char", r[1], SHX_SET1, TRUE, r[2], c.dstate, c.is_all_upper)
    ELSE hcode2(inn, len_, c, getCodeIdx(us_hcode, inn, len_, r[2]))

\* "read hCode" after the switch code
hcode1(inn, len_, c, r) ==
    IF r[1] < 0 THEN Code("break", 0, r[1], FALSE, r[2], c.dstate, c.is_all_upper)
    ELSE IF r[1] = SHX_SET1 /\ c.dstate # SHX_SET1
    THEN Code("continue", 0, r[1], FALSE, r[2], SHX_SET1, c.is_all_upper)
    ELSE IF r[1] = SHX_SET1 /\ c.is_all_upper
    THEN Code("continue", 0, r[1], FALSE, r[2], c.dstate, FALSE)
    ELSE IF r[1] = SHX_SET1 THEN vcode2(inn, len_, c, getCodeIdx(us_vcode, inn, len_, r[2]))
    ELSE IF r[1] = SHX_SET2
    THEN Code("continue", 0, r[1], FALSE, r[2],
              IF c.dstate = SHX_SET1 THEN SHX_SET2 ELSE c.dstate, c.is_all_upper)
    ELSE vcode3(c, r[1], c.is_all_upper, getCodeIdx(us_vcode, inn, len_, r[2]))

\* "read vCode"
vcode1(inn, len_, c, r) ==
    IF r[1] < 0 THEN Code("break", r[1], c.dstate, FALSE, r[2], c.dstate, c.is_all_upper)
    ELSE IF r[1] # 0
    THEN Code("char", r[1], c.dstate, c.is_all_upper, r[2], c.dstate, c.is_all_upper)
    ELSE hcode1(inn, len_, c, getCodeIdx(us_hcode, inn, len_, r[2]))

\* c of sets[h][v]: upper case for letters, "If UpperCase Space, change to TAB"
letter(byte, v, upper, dstate) ==
    IF 97 <= byte /\ byte <= 122 THEN (IF upper THEN byte - 32 ELSE byte)
    ELSE IF upper /\ dstate = SHX_SET1 /\ v = 1 THEN 9
    ELSE byte

\* the loop body from "if v == 0 and h == self.SHX_SET1A" on
emit(inn, len_, len_out, c, v, h, upper) ==
    IF (v = 0 /\ h = SHX_SET1A /\ upper) \/ (h = SHX_SET1 /\ v = 3)
    THEN binary(c, readCount(inn, c.bit_no, len_))
    ELSE IF v = 0 /\ h = SHX_SET1A THEN decodeRepeat(inn, len_, c)
    ELSE IF h = SHX_SET1B /\ v = 8 THEN advance(write(c, c.ol, 10), 1)
    ELSE IF h = SHX_SET1B /\ v = 9 THEN repeat(c, readCount(inn, c.bit_no, len_), len_out)
    ELSE IF h = SHX_SET1B /\ v = 10 THEN Return(c, c.ol)
    ELSE put(c, letter(At(At(sets, h), v), v, upper, c.dstate), len_out)

decompress_code(inn, len_, len_out, c, q) ==
    IF q.op = "break" THEN Return(c, c.ol)
    ELSE IF q.op = "continue"
    THEN [c EXCEPT !.bit_no = q.bit_no, !.dstate = q.dstate,
                   !.is_all_upper = q.is_all_upper]
    ELSE emit(inn, len_, len_out,
              [c EXCEPT !.bit_no = q.bit_no, !.dstate = q.dstate,
                        !.is_all_upper = q.is_all_upper],
              q.v, q.h, q.is_upper)

\* a round of the while loop, if there is one more; len_ is in bits here
decompress_round(inn, len_, len_out, c) ==
    IF c.fault \/ c.done \/ c.bit_no >= len_ THEN c
    ELSE decompress_code(inn, len_, len_out, c,
                         vcode1(inn, len_, c, getCodeIdx(us_vcode, inn, len_, c.bit_no)))

\* n rounds of the while loop, the second half from the state the first
\* half left
RECURSIVE decompress_rounds(_, _, _, _, _)
decompress_rounds(inn, len_, len_out, c, n) ==
    IF n <= 1 THEN decompress_round(inn, len_, len_out, c)
    ELSE CHOOSE r \in {decompress_rounds(inn, len_, len_out, half, n - (n \div 2)) :
                          half \in {decompress_rounds(inn, len_, len_out, c, n \div 2)}} : TRUE

\* "return ol" after the loop
returned(c) == IF c.fault \/ c.done THEN c ELSE Return(c, c.ol)

\* every round reads a bit or leaves the loop, so len_ rounds end it
decompress_loop(inn, len_, len_out, c) ==
    returned(decompress_rounds(inn, len_, len_out, c, len_))

decompress(inn, len_, out, len_out) ==
    decompress_loop(inn, Shl(len_, 3), len_out,
        write([out |-> out, ol |-> 0, bit_no |-> 0, dstate |-> SHX_SET1,
               is_all_upper |-> FALSE, done |-> FALSE, ret |-> 0, fault |-> FALSE,
               outside |-> FALSE],
              0, 0))

\* ------------------------------------------------------------------------
\* The calls of Unishox: the inputs and the buffers offered
\* ------------------------------------------------------------------------
\* the longest input of which every text over UsxAlphabet is tried
MaxText == 3
\* the largest output buffer below an ample one
MaxOut == 6
\* the longest byte stream that is not the output of compress
MaxStream == 2
\* the lengths of the long run and of the arbitrary bytes
RunLen == 500
ArbitraryLen == 200

\* 'a', 'T', '0', ' ', LF and two bytes that are not ASCII
UsxAlphabet == {97, 84, 48, 32, 10, 213, 255}

\* the marker, bytes that open a dictionary, a binary and a repeat code
StreamAlphabet == {0, 42, 55, 128, 163, 255}

Zeros(n) == [i \in 1..n |-> 0]

Texts(alphabet, n) == UNION {[1..k -> alphabet] : k \in 0..n}

\* a long run, short runs, a substring repeated five times, bytes without
\* a pattern, upper case letters, digits and a space
LongTexts ==
    { [i \in 1..RunLen |-> 97],
      [i \in 1..7 |-> 97],
      [i \in 1..9 |-> 48],
      [i \in 1..30 |-> 97 + ((i - 1) % 6)],
      [i \in 1..12 |-> 49 + ((i - 1) % 6)],
      [i \in 1..ArbitraryLen |-> ((i * 167) + 13) % 256],
      [i \in 1..7 |-> 64 + i],
      <<49, 50, 32, 51>>,
      <<97, 255, 97, 255, 84, 84>> }

UsxInputs == Texts(UsxAlphabet, MaxText) \cup LongTexts

\* a buffer that holds the output of compress with the headroom compress
\* asks for, and one that holds the text and its terminator
AmpleCompressed(inn) == 4 * Len(inn) + 8
AmpleText(inn) == Len(inn) + 1

\* ------------------------------------------------------------------------
\* The write converters that compress
\* ------------------------------------------------------------------------
\* a bare exception of a converter
RaiseV == [k |-> "raise"]

\* compressed_data[:compressed_data.find(b'\x00')] when there is a NUL
UpToNul(data) ==
    IF \E i \in 1..Len(data) : data[i] = 0
    THEN SubSeq(data, 1, (CHOOSE i \in 1..Len(data) :
                              data[i] = 0 /\ \A j \in 1..(i - 1) : data[j] # 0) - 1)
    ELSE data

\* scriptwrite with compression (scripting_compressed 1): the script is
\* compressed into a buffer of the length of the field and what compress
\* returns is not looked at; an exception of compress is not caught
scriptwrite_compressed(CONFIG, value) ==
    IF CONFIG.scripting_used # 1 THEN FalseV
    ELSE IF CONFIG.scripting_compressed # 1 THEN StrV(value)
    ELSE IF DictGet(CONFIG.template, "script") = None THEN RaiseV
    ELSE LET length == get_fieldlength(DictGet(CONFIG.template, "script"))
             c == compress(value, Len(value), Zeros(length), length)
         IN IF c.fault THEN RaiseV ELSE StrV(UpToNul(c.out))

\* ruleswrite: a rule as long as the field or longer is compressed when
\* the setting says so, and what compress returns is not looked at; on an
\* exception of compress the rule is returned as it is.  value is bytes,
\* so value[0] != '\x00' holds for every value.
ruleswrite(CONFIG, value) ==
    IF CONFIG.scripting_used # 0 THEN FalseV
    ELSE IF DictGet(CONFIG.template, "rules") = None THEN RaiseV
    ELSE LET length == get_fieldlength(get_subfielddef(DictGet(CONFIG.template, "rules")))
             c == compress(value, Len(value), Zeros(length), length)
         IN IF CONFIG.compress_rules_cpu /\ Len(value) > 0 /\ Len(value) >= length
            THEN IF c.fault THEN StrV(value)
                 ELSE StrV(<<0, (Len(value) + 7) \div 8>> \o UpToNul(c.out))
            ELSE IF Len(value) = 0 THEN StrV(<<0, 0>>)
            ELSE StrV(value)

\* ------------------------------------------------------------------------
\* Calls of Unishox.compress and Unishox.decompress
\* ------------------------------------------------------------------------
InitUnishox ==
    /\ pc \in {"compress", "stream"}
    /\ decode = <<>>
    /\ info = None
    /\ groupmapping = None
    /\ jsonconfig = None
    /\ run = NewRun(<<>>)
    /\ ignorewarning = FALSE
    /\ packzero = TRUE
    /\ args = None
    /\ effects = <<>>
    /\ unit = None
    /\ usx \in (IF pc = "compress"
                THEN {[call |-> "compress", inn |-> inn, stream |-> <<>>,
                       compressed |-> None, text |-> None] : inn \in UsxInputs}
                ELSE {[call |-> "decompress", inn |-> <<>>, stream |-> stream,
                       compressed |-> None, text |-> None] :
                         stream \in Texts(StreamAlphabet, MaxStream)})

\* Unishox().compress(inn, len(inn), out, len(out)) into a new buffer
UsxCompress ==
    /\ pc = "compress"
    /\ \E len_out \in (0..MaxOut) \cup {AmpleCompressed(usx.inn)} :
           \E c \in {compress(usx.inn, Len(usx.inn), Zeros(len_out), len_out)} :
               /\ usx' = [usx EXCEPT !.compressed = c,
                                     !.stream = IF c.fault \/ c.ret < 0 THEN <<>>
                                                ELSE SubSeq(c.out, 1, c.ret)]
               /\ pc' = IF c.fault THEN "raised"
                        ELSE IF c.ret < 0 THEN "failed" ELSE "compressed"
    /\ UNCHANGED <<decode, info, groupmapping, jsonconfig, run, ignorewarning, packzero, args, effects, unit>>

\* the text a call of decompress leaves in a new buffer of len_out bytes
Decompressed(stream, len_out) ==
    decompress(stream, Len(stream), Zeros(len_out), len_out)

\* Unishox().decompress of the bytes compress returned
UsxDecompress ==
    /\ pc = "compressed"
    /\ \E len_out \in {n \in 0..AmpleText(usx.inn) :
                          n <= MaxOut \/ n = AmpleText(usx.inn)} :
           usx' = [usx EXCEPT !.text = Decompressed(usx.stream, len_out)]
    /\ pc' = "decompressed"
    /\ UNCHANGED <<decode, info, groupmapping, jsonconfig, run, ignorewarning, packzero, args, effects, unit>>

\* Unishox().decompress of bytes as a configuration may hold them
UsxDecompressStream ==
    /\ pc = "stream"
    /\ \E len_out \in 0..MaxOut :
           usx' = [usx EXCEPT !.text = Decompressed(usx.stream, len_out)]
    /\ pc' = "decompressed"
    /\ UNCHANGED <<decode, info, groupmapping, jsonconfig, run, ignorewarning, packzero, args, effects, unit>>

NextUnishox == UsxCompress \/ UsxDecompress \/ UsxDecompressStream

SpecUnishox == InitUnishox /\ [][NextUnishox]_vars

\* ------------------------------------------------------------------------
\* Calls of the checksum unit
\* ------------------------------------------------------------------------
\* the greatest length of the short data the checksum is computed over
MaxData == 3

\* a buffer holding data followed by the four bytes of the CRC32 field
WithCrc32Field(data, field) ==
    [i \in 0..(Len(data) + 3) |-> IF i < Len(data) THEN data[i + 1] ELSE field[i - Len(data) + 1]]

\* bytes(range(256))
ReferenceVector == [i \in 1..256 |-> i - 1]

\* "123456789"
CheckString == [i \in 1..9 |-> 48 + i]

\* the buffers the checksum is computed over: the reference data and short
\* data, with a CRC32 field of any content behind them
ChecksumInputs ==
    {WithCrc32Field(data, field) :
        data \in {ReferenceVector, CheckString} \cup Texts({0, 1, 255}, MaxData),
        field \in {<<0, 0, 0, 0>>, <<255, 255, 255, 255>>, <<1, 2, 3, 4>>}}

InitChecksum ==
    /\ pc = "crc32"
    /\ decode \in ChecksumInputs
    /\ info = None
    /\ groupmapping = None
    /\ jsonconfig = None
    /\ run = NewRun(decode)
    /\ ignorewarning = FALSE
    /\ packzero = TRUE
    /\ usx = None
    /\ args = None
    /\ effects = <<>>
    /\ unit = None

\* crc32 = get_settingcrc32(dobj)
GetSettingCrc32 ==
    /\ pc = "crc32"
    /\ unit' = [call |-> "get_settingcrc32", ret |-> get_settingcrc32(decode)]
    /\ pc' = "returned"
    /\ UNCHANGED <<decode, info, groupmapping, jsonconfig, run, ignorewarning, packzero, usx,
                   args, effects>>

NextChecksum == GetSettingCrc32

SpecChecksum == InitChecksum /\ [][NextChecksum]_vars

\* ------------------------------------------------------------------------
\* Calls of the write converters of rules and script
\* ------------------------------------------------------------------------
\* the lengths of the rules and script fields of the settings tried
FieldLengths == {5, 8, 16}

\* a setting with a script of length bytes and three rules of length bytes
ConverterSetting(length) ==
    << <<"script", get_fielddef(ESP, Fmt(length, "s"), <<0, 0, 0, "">>, <<<<>>, <<>>>>,
                                <<"scriptread", "scriptwrite">>)>>,
       <<"rules", get_fielddef(ESP, Fmt(length, "s"), <<length, 0, 0, "">>, <<<<3>>, <<>>>>,
                               <<"rulesread", "ruleswrite">>)>> >>

InitConverter ==
    /\ pc = "convert"
    /\ decode = <<>>
    /\ info = None
    /\ groupmapping = None
    /\ jsonconfig = None
    /\ run = NewRun(<<>>)
    /\ ignorewarning = FALSE
    /\ packzero = TRUE
    /\ usx = None
    /\ args = None
    /\ effects = <<>>
    /\ unit \in {[CONFIG |-> [template |-> ConverterSetting(length),
                              scripting_used |-> used,
                              scripting_compressed |-> used,
                              compress_rules_cpu |-> cpu],
                  length |-> length, value |-> inn, ret |-> None] :
                    length \in FieldLengths, used \in 0..1, cpu \in BOOLEAN,
                    inn \in UsxInputs}

\* value = ruleswrite(value), called by write_converter for a rule
RulesWrite ==
    /\ pc = "convert"
    /\ unit.CONFIG.scripting_used = 0
    /\ unit' = [unit EXCEPT !.ret = ruleswrite(unit.CONFIG, unit.value)]
    /\ pc' = "rules"
    /\ UNCHANGED <<decode, info, groupmapping, jsonconfig, run, ignorewarning, packzero, usx,
                   args, effects>>

\* value = scriptwrite(value), called by write_converter for the script
ScriptWrite ==
    /\ pc = "convert"
    /\ unit.CONFIG.scripting_used = 1
    /\ unit' = [unit EXCEPT !.ret = scriptwrite_compressed(unit.CONFIG, unit.value)]
    /\ pc' = "script"
    /\ UNCHANGED <<decode, info, groupmapping, jsonconfig, run, ignorewarning, packzero, usx,
                   args, effects>>

NextConverter == RulesWrite \/ ScriptWrite

SpecConverter == InitConverter /\ [][NextConverter]_vars

\* ------------------------------------------------------------------------
\* Calls of get_field and set_field for one indexed string field
\* ------------------------------------------------------------------------
\* a field definition of a setting that has gone stale: the index name of
\* its string is not among the index names of the setting
StaleField ==
    get_fielddef(ESP, Fmt(8, "s"), <<28, 0, 0, "SET_MQTT_CLIENT">>, <<<<>>, <<>>>>, <<"None", "None">>)

\* the indexed string fields read and written: those of the setting and
\* the stale one
IndexedFields(template) ==
    { <<name, DictGet(template, name)>> : name \in TextNames } \cup { <<"mqtt_client", StaleField>> }

\* the configurations with a string pool
PoolBuffers ==
    {FixCrc(Mk(ver, 0, pokes)) : ver \in {5, 9}, pokes \in {p \in Pokes : p = <<>> \/ p[1][1] >= 28}}

InitIndexed ==
    /\ pc = "field"
    /\ decode \in PoolBuffers
    /\ info = get_config_info(decode)
    /\ groupmapping = None
    /\ jsonconfig = None
    /\ run = NewRun(decode)
    /\ ignorewarning \in BOOLEAN
    /\ packzero = TRUE
    /\ usx = None
    /\ args = None
    /\ effects = <<>>
    /\ unit \in {[call |-> "field", fieldname |-> field[1], fielddef |-> field[2], value |-> None] :
                    field \in IndexedFields(info.template)}

\* value = get_field(dobj, config_version, fieldname, fielddef, raw=True)
GetIndexed ==
    /\ pc = "field"
    /\ unit' = [unit EXCEPT !.value = get_field(info, decode, info.hardware, unit.fieldname,
                                                 unit.fielddef, TRUE, 0, TRUE)]
    /\ pc' = "read"
    /\ UNCHANGED <<decode, info, groupmapping, jsonconfig, run, ignorewarning, packzero, usx,
                   args, effects>>

\* dobj = set_field(dobj, config_version, fieldname, fielddef, restoremapping)
SetIndexed ==
    /\ pc = "read"
    /\ \E text \in OfferTexts :
       \E st \in {set_field(info, run, info.hardware, unit.fieldname, unit.fielddef,
                            StrV(text), 0)} :
          /\ jsonconfig' = StrV(text)
          /\ run' = st
          /\ pc' = After(st, "written")
    /\ UNCHANGED <<decode, info, groupmapping, ignorewarning, packzero, usx, args, effects, unit>>

NextIndexed == GetIndexed \/ SetIndexed

SpecIndexed == InitIndexed /\ [][NextIndexed]_vars

\* ------------------------------------------------------------------------
\* A run that backs up and restores
\* ------------------------------------------------------------------------
\* decrypt_encrypt: the bytes from the third on, each XORed with
\* CONFIG_FILE_XOR plus its address
decrypt_encrypt(obj) ==
    [i \in DOMAIN obj |-> IF i < 2 THEN obj[i] ELSE BitXor(obj[i], (CONFIG_FILE_XOR + i) % 256)]

\* backup: the backup file is written unless the run is a dry run; failed
\* tells that the write has raised
backup(st, failed) ==
    IF args.dryrun THEN [st |-> st, effects |-> <<>>]
    ELSE [st |-> IF failed THEN exit_(st, INTERNAL_ERROR, "backup", "", None, TRUE) ELSE st,
          effects |-> <<[op |-> "write", file |-> "backup", data |-> decrypt_encrypt(st.dobj),
                         failed |-> failed]>>]

\* restore: the new configuration read from the restore file, a Tasmota
\* file as it is, a JSON file through mapping2bin; the binary format is the
\* Tasmota format after decrypt_encrypt
restore_read(config, st, file) ==
    IF file.filetype = "dmp" THEN [st |-> st, new_encode_cfg |-> file.data.v]
    ELSE IF file.filetype = "json"
    THEN [st |-> mapping2bin(config, st, file.data),
          new_encode_cfg |-> IF mapping2bin(config, st, file.data).exited
                                \/ mapping2bin(config, st, file.data).raised
                             THEN None
                             ELSE decrypt_encrypt(mapping2bin(config, st, file.data).dobj)]
    ELSE [st |-> exit_(st, FILE_NOT_FOUND, "not found", "", None, TRUE), new_encode_cfg |-> None]

\* restore: the hardware the restore file is for, from its data or from
\* the name config_version of the JSON file, ESP82 when it has no such name
new_config_version(file) ==
    IF file.filetype = "dmp" THEN get_config_info(decrypt_encrypt(file.data.v)).hardware
    ELSE IF DictGet(file.data.v, "config_version") = None THEN 0
    ELSE DictGet(file.data.v, "config_version").v

\* restore: platform compatibility check and, for a binary file, data
\* version compatibility check
restore_checks(config, st, file) ==
    LET platform == IF config.info.hardware # new_config_version(file)
                    THEN exit_(st, RESTORE_DATA_ERROR, "Data incompatibility", "config_version",
                               IntV(new_config_version(file)), ~ignorewarning)
                    ELSE st
    IN IF ~platform.exited /\ file.filetype = "dmp"
          /\ config.info.version # get_config_info(decrypt_encrypt(file.data.v)).version
       THEN exit_(platform, RESTORE_DATA_ERROR, "Restore binary data incompatibility", "version",
                  IntV(get_config_info(decrypt_encrypt(file.data.v)).version), ~ignorewarning)
       ELSE platform

\* restore writing whether the run is a dry run or not
restore_write_always(st, new_encode_cfg, failed) ==
    [st |-> IF failed
            THEN exit_(st, IF args.source = "file" THEN INTERNAL_ERROR ELSE UPLOAD_CONFIG_ERROR,
                       "restore", "", None, TRUE)
            ELSE st,
     effects |-> <<[op |-> IF args.source = "http" THEN "push_http"
                           ELSE IF args.source = "mqtt" THEN "push_mqtt" ELSE "write",
                    file |-> args.source, data |-> new_encode_cfg, failed |-> failed]>>]

\* restore: the new configuration goes to the device by push_http or
\* push_mqtt, or to the source file, unless the run is a dry run; failed
\* tells that the push has returned an error or the write has raised
restore_write(st, new_encode_cfg, failed) ==
    IF args.dryrun THEN [st |-> st, effects |-> <<>>]
    ELSE [st |-> IF failed
                 THEN exit_(st, IF args.source = "file" THEN INTERNAL_ERROR ELSE UPLOAD_CONFIG_ERROR,
                            "restore", "", None, TRUE)
                 ELSE st,
          effects |-> <<[op |-> IF args.source = "http" THEN "push_http"
                                ELSE IF args.source = "mqtt" THEN "push_mqtt" ELSE "write",
                         file |-> args.source, data |-> new_encode_cfg, failed |-> failed]>>]

\* restore, from the checks on
restore_new(config, st, new_encode_cfg, failed) ==
    IF st.exited THEN [st |-> st, effects |-> <<>>]
    ELSE IF args.forcerestore \/ new_encode_cfg # decrypt_encrypt(config.decode)
    THEN restore_write(st, new_encode_cfg, failed)
    ELSE [st |-> [st EXCEPT !.EXIT_CODE = RESTORE_SKIPPED], effects |-> <<>>]

\* restore: the new configuration is read, checked and, when it differs
\* from the configuration read or the restore is forced, pushed or written
restore(config, st, file, failed) ==
    IF restore_read(config, st, file).new_encode_cfg = None
    THEN [st |-> restore_read(config, st, file).st, effects |-> <<>>]
    ELSE restore_new(config, restore_checks(config, restore_read(config, st, file).st, file),
                     restore_read(config, st, file).new_encode_cfg, failed)

\* the exit code main ends with when it keeps the code it has
main_exit_kept(st) == st.EXIT_CODE

\* the end of main: a code other than OK is OK when warnings are ignored
main_exit(st) ==
    IF st.EXIT_CODE # ExitCode_OK /\ ignorewarning THEN ExitCode_OK ELSE st.EXIT_CODE

\* the content of a binary file
BytesV(b) == [k |-> "bytes", v |-> b]

\* the configurations a run restores to
RestoreBuffers ==
    {FixCrc(Mk(ver, hw, pokes)) : ver \in {9}, hw \in 0..1, pokes \in {<<>>, <<<<16, 2>>>>}}
    \cup {FixCrc(Mk(2, 0, <<>>)), Mk(9, 0, <<<<16, 2>>>>),
          FixCrc(Mk(9, 0, <<<<28, 65>>, <<30, 66>>, <<31, 67>>>>))}

\* an ota_url of seven characters: it fills an empty string pool
LongUrl == StrV(<<65, 66, 67, 68, 69, 70, 71>>)

\* the restore files: Tasmota files of the configurations, JSON files with
\* the mapping decoded, with display_size for either hardware, with a
\* name no setting has and with a long ota_url, alone and after
\* display_size, and a file that does not exist
RestoreFiles(mapping) ==
    {[filetype |-> "dmp", data |-> BytesV(decrypt_encrypt(dobj))] : dobj \in RestoreBuffers}
    \cup {[filetype |-> "json", data |-> offer] :
             offer \in {mapping, Offer1("display_size", IntV(2)), Offer1("obsolete", IntV(1)),
                        Offer1("ota_url", LongUrl),
                        DictV(<< <<"display_size", IntV(2)>>, <<"ota_url", LongUrl>> >>)}
                       \cup {DictV(<< <<"config_version", IntV(hw)>>, <<"display_size", IntV(2)>> >>) :
                                hw \in 0..1}}
    \cup {[filetype |-> "not_found", data |-> None]}

\* the options of a run: --dry-run, --force-restore, the source (--source
\* names a device by http or mqtt, or a file), --backup-file given or not
Options ==
    [dryrun : BOOLEAN, forcerestore : BOOLEAN, source : {"http", "mqtt", "file"},
     backupfile : BOOLEAN]

InitRestore ==
    /\ pc = "start"
    /\ decode \in RestoreBuffers
    /\ info = None
    /\ groupmapping = None
    /\ jsonconfig = None
    /\ run = NewRun(decode)
    /\ ignorewarning \in BOOLEAN
    /\ packzero = TRUE
    /\ usx = None
    /\ args \in Options
    /\ effects = <<>>
    /\ unit = None

\* if ARGS.backupfile is not None: backup(BACKUPFILE, ...)
Backup ==
    /\ pc = "checked"
    /\ \E failed \in (IF args.backupfile /\ ~args.dryrun THEN BOOLEAN ELSE {FALSE}) :
       \E done \in {IF args.backupfile THEN backup(run, failed)
                    ELSE [st |-> run, effects |-> <<>>]} :
          /\ run' = done.st
          /\ effects' = effects \o done.effects
          /\ pc' = After(done.st, "backup")
    /\ UNCHANGED <<decode, info, groupmapping, jsonconfig, ignorewarning, packzero, usx, args, unit>>

\* if ARGS.restorefile is not None: restore(ARGS.restorefile, ...)
Restore ==
    /\ pc = "backup"
    /\ \E file \in RestoreFiles(groupmapping), failed \in BOOLEAN :
       \E done \in {restore([decode |-> decode, info |-> info], run, file, failed)} :
          /\ jsonconfig' = file
          /\ run' = done.st
          /\ effects' = effects \o done.effects
          /\ pc' = After(done.st, "restore")
    /\ UNCHANGED <<decode, info, groupmapping, ignorewarning, packzero, usx, args, unit>>

\* sys.exit(EXIT_CODE) at the end of main
Exit ==
    /\ pc = "restore"
    /\ run' = [run EXCEPT !.EXIT_CODE = main_exit(run), !.exited = TRUE]
    /\ pc' = "exit"
    /\ UNCHANGED <<decode, info, groupmapping, jsonconfig, ignorewarning, packzero, usx, args,
                   effects, unit>>

NextRestore == GetConfigInfo \/ Bin2Mapping \/ CheckVersion \/ Backup \/ Restore \/ Exit

SpecRestore == InitRestore /\ [][NextRestore]_vars

\* ------------------------------------------------------------------------
\* pull_mqtt: the main thread and the callback thread of the MQTT client
\* ------------------------------------------------------------------------
DOWNLOAD_CONFIG_ERROR == 10
MQTT_FILETYPE == 2

\* the rounds of wait_for_ack's loop, MQTT_TIMEOUT/10 in the program
MqttTicks == 2
\* the messages the device sends during one call
MaxMessages == 4

\* hashlib.md5().hexdigest() of data, taken as free of collisions: the
\* data under a mark, so that no digest is the empty string
hexdigest(data) == <<255>> \o data

\* a message of the device on the stat topic: the text of FileDownload or
\* FileUpload, and the values of File, Id, Type, Size, Data (the bytes its
\* base64 text stands for) and Md5, empty or 0 when the name is missing
Message(code, file, id, type, size, data, md5) ==
    [code |-> code, File |-> file, Id |-> id, Type |-> type, Size |-> size,
     Data |-> data, Md5 |-> md5]

\* what the device answers to a request of pull_mqtt: the download is
\* aborted, started or in error, the description of the file, a chunk of
\* the file, a chunk under another Id, the MD5 of the chunks <<1>>, <<2>>
\* and the MD5 of other data
PullMessages ==
    { Message("Aborted", "", 0, 0, 0, <<>>, <<>>),
      Message("Started", "", 0, 0, 0, <<>>, <<>>),
      Message("Error 1", "", 0, 0, 0, <<>>, <<>>),
      Message("", "Settings", 2, MQTT_FILETYPE, 2, <<>>, <<>>),
      Message("", "", 2, 0, 0, <<1>>, <<>>),
      Message("", "", 2, 0, 0, <<2>>, <<>>),
      Message("", "", 3, 0, 0, <<1>>, <<>>),
      Message("", "", 2, 0, 0, <<>>, hexdigest(<<1, 2>>)),
      Message("", "", 2, 0, 0, <<>>, hexdigest(<<1>>)) }

\* client.publish(topic_publish, payload)
publish(payload) == <<[op |-> "publish", payload |-> payload]>>

\* the requests published that the device answers
Requests(published) ==
    Cardinality({n \in 1..Len(published) : published[n].payload \in {"request", "?"}})

\* on_message of pull_mqtt: the MD5 of the chunks against file_md5
md5_checked(u) ==
    IF u.file_md5 # <<>> /\ hexdigest(u.hash) # u.file_md5
    THEN [u EXCEPT !.err_str = "MD5 mismatch", !.err_flag = TRUE,
                   !.events = @ \cup {"mismatch"}, !.cb = "clear"]
    ELSE [u EXCEPT !.cb = "clear"]

InitPull ==
    /\ pc = "start"
    /\ decode = <<>>
    /\ info = None
    /\ groupmapping = None
    /\ jsonconfig = None
    /\ run = NewRun(<<>>)
    /\ ignorewarning = FALSE
    /\ packzero = TRUE
    /\ usx = None
    /\ args = None
    /\ effects = <<>>
    /\ unit = [ack_flag |-> FALSE, err_flag |-> FALSE, err_str |-> "",
               file_name |-> "", file_id |-> 0, file_type |-> 0, file_size |-> 0,
               file_md5 |-> <<>>, dobj |-> None, hash |-> <<>>,
               timeout |-> 0, rcv_id |-> 0, base64_data |-> <<>>,
               net |-> <<>>, sent |-> 0, cb |-> "idle",
               answered |-> FALSE, events |-> {}, result |-> None]

\* client.publish(topic_publish, json.dumps(data))
PullRequest ==
    /\ pc = "start"
    /\ effects' = effects \o publish("request")
    /\ unit' = [unit EXCEPT !.answered = FALSE]
    /\ pc' = "ack"
    /\ UNCHANGED <<decode, info, groupmapping, jsonconfig, run, ignorewarning, packzero, usx, args>>

\* ack_flag = True, and the entry of wait_for_ack
PullSetAck ==
    /\ pc = "ack"
    /\ unit' = [unit EXCEPT !.ack_flag = TRUE, !.timeout = MqttTicks]
    /\ pc' = "wait"
    /\ UNCHANGED <<decode, info, groupmapping, jsonconfig, run, ignorewarning, packzero, usx,
                   args, effects>>

\* wait_for_ack, a round of the loop
PullSleep ==
    /\ pc = "wait"
    /\ unit.ack_flag /\ ~unit.err_flag /\ unit.timeout > 0
    /\ unit' = [unit EXCEPT !.timeout = @ - 1]
    /\ UNCHANGED <<pc, decode, info, groupmapping, jsonconfig, run, ignorewarning, packzero,
                   usx, args, effects>>

\* wait_for_ack, after the loop: the timeout, and return ack_flag
PullWaited ==
    /\ pc = "wait"
    /\ ~(unit.ack_flag /\ ~unit.err_flag /\ unit.timeout > 0)
    /\ unit' = [unit EXCEPT !.err_flag = @ \/ unit.timeout = 0,
                            !.events = IF unit.timeout = 0 THEN @ \cup {"timeout"} ELSE @]
    /\ pc' = IF unit.ack_flag THEN "abort" ELSE "next"
    /\ UNCHANGED <<decode, info, groupmapping, jsonconfig, run, ignorewarning, packzero, usx,
                   args, effects>>

\* client.publish(topic_publish, "0"); run_flag = False
PullAbort ==
    /\ pc = "abort"
    /\ effects' = effects \o publish("0")
    /\ pc' = "finish"
    /\ UNCHANGED <<decode, info, groupmapping, jsonconfig, run, ignorewarning, packzero, usx,
                   args, unit>>

\* the else branch of the loop: the next chunk is asked for until the MD5
\* has come
PullNext ==
    /\ pc = "next"
    /\ IF unit.file_md5 = <<>>
       THEN /\ effects' = effects \o publish("?")
            /\ unit' = [unit EXCEPT !.answered = FALSE]
            /\ pc' = "ack"
       ELSE /\ pc' = "finish"
            /\ UNCHANGED <<effects, unit>>
    /\ UNCHANGED <<decode, info, groupmapping, jsonconfig, run, ignorewarning, packzero, usx, args>>

\* after the loop: exit_ on err_flag, else return dobj
PullFinish ==
    /\ pc = "finish"
    /\ IF ~unit.err_flag
       THEN /\ unit' = [unit EXCEPT !.result = unit.dobj]
            /\ pc' = "returned"
            /\ run' = run
       ELSE /\ run' = exit_(run, DOWNLOAD_CONFIG_ERROR, "Error during MQTT data processing",
                            "", None, TRUE)
            /\ pc' = "exit"
            /\ unit' = unit
    /\ UNCHANGED <<decode, info, groupmapping, jsonconfig, ignorewarning, packzero, usx, args,
                   effects>>

\* the device sends a message once the download has been asked for: the
\* answer to a request, or a message that follows another one as the
\* description of the file follows "Started"
PullDevice ==
    /\ pc \notin {"returned", "exit"}
    /\ unit.sent < MaxMessages
    /\ Requests(effects) > 0
    /\ \E m \in PullMessages :
           unit' = [unit EXCEPT !.net = Append(@, m), !.sent = @ + 1]
    /\ UNCHANGED <<pc, decode, info, groupmapping, jsonconfig, run, ignorewarning, packzero,
                   usx, args, effects>>

\* on_message, the try block: the message is parsed
PullParse ==
    /\ pc \notin {"returned", "exit"}
    /\ unit.cb = "idle"
    /\ unit.net # <<>>
    /\ LET m == Head(unit.net)
           u == [unit EXCEPT !.net = Tail(@)]
       IN unit' =
            IF m.code = "Aborted"
            THEN [u EXCEPT !.err_str = "Aborted", !.err_flag = TRUE,
                           !.events = @ \cup {"aborted"}]
            ELSE IF m.code = "Started" THEN u
            ELSE IF m.code # ""
            THEN [u EXCEPT !.err_str = "Wrong password", !.err_flag = TRUE,
                           !.events = @ \cup {"error"}]
            ELSE [u EXCEPT !.file_name = IF m.File # "" THEN m.File ELSE @,
                           !.rcv_id = m.Id,
                           !.file_type = IF m.Type # 0 THEN m.Type ELSE @,
                           !.file_size = IF m.Size # 0 THEN m.Size ELSE @,
                           !.base64_data = m.Data,
                           !.file_md5 = IF m.Md5 # <<>> THEN m.Md5 ELSE @,
                           !.cb = "accept"]
    /\ UNCHANGED <<pc, decode, info, groupmapping, jsonconfig, run, ignorewarning, packzero,
                   usx, args, effects>>

\* on_message: the first description of a file opens dobj, a message of
\* another Id is an error
PullAccept ==
    /\ pc \notin {"returned", "exit"}
    /\ unit.cb = "accept"
    /\ unit' =
         IF unit.dobj = None /\ unit.rcv_id > 0 /\ unit.file_size > 0 /\ unit.file_type > 0
            /\ unit.file_name # ""
         THEN [unit EXCEPT !.file_id = unit.rcv_id, !.dobj = BytesV(<<>>), !.cb = "data"]
         ELSE IF unit.file_id > 0 /\ unit.file_id # unit.rcv_id
         THEN [unit EXCEPT !.err_flag = TRUE, !.events = @ \cup {"foreign"}, !.cb = "idle"]
         ELSE [unit EXCEPT !.cb = "data"]
    /\ UNCHANGED <<pc, decode, info, groupmapping, jsonconfig, run, ignorewarning, packzero,
                   usx, args, effects>>

\* on_message: a chunk is hashed and added to dobj; dobj += chunk raises
\* while dobj is None, and the thread of the callback ends
PullData ==
    /\ pc \notin {"returned", "exit"}
    /\ unit.cb = "data"
    /\ unit' =
         IF unit.file_md5 = <<>> /\ unit.file_name # "" /\ unit.base64_data # <<>>
         THEN IF unit.dobj = None
              THEN [unit EXCEPT !.hash = @ \o unit.base64_data, !.cb = "dead"]
              ELSE [unit EXCEPT !.hash = @ \o unit.base64_data,
                                !.dobj = BytesV(@.v \o unit.base64_data), !.cb = "md5"]
         ELSE [unit EXCEPT !.cb = "md5"]
    /\ UNCHANGED <<pc, decode, info, groupmapping, jsonconfig, run, ignorewarning, packzero,
                   usx, args, effects>>

\* on_message: if file_md5 != "": the check of the MD5
PullMd5 ==
    /\ pc \notin {"returned", "exit"}
    /\ unit.cb = "md5"
    /\ unit' = md5_checked(unit)
    /\ UNCHANGED <<pc, decode, info, groupmapping, jsonconfig, run, ignorewarning, packzero,
                   usx, args, effects>>

\* on_message: ack_flag = False
PullClear ==
    /\ pc \notin {"returned", "exit"}
    /\ unit.cb = "clear"
    /\ unit' = [unit EXCEPT !.ack_flag = FALSE, !.answered = TRUE, !.cb = "idle"]
    /\ UNCHANGED <<pc, decode, info, groupmapping, jsonconfig, run, ignorewarning, packzero,
                   usx, args, effects>>

NextPull ==
    \/ PullRequest \/ PullSetAck \/ PullSleep \/ PullWaited \/ PullAbort \/ PullNext
    \/ PullFinish \/ PullDevice \/ PullParse \/ PullAccept \/ PullData \/ PullMd5 \/ PullClear

SpecPull == InitPull /\ [][NextPull]_vars

\* ------------------------------------------------------------------------
\* push_mqtt: the main thread and the callback thread of the MQTT client
\* ------------------------------------------------------------------------
\* the bytes of one chunk, MQTT_MESSAGE_MAX_SIZE in the program
ChunkSize == 1
\* the messages the device sends during one call
MaxAnswers == 3
\* the longest configuration uploaded
MaxUpload == 3

\* a message of the device on the stat topic of FILEUPLOAD: the text of
\* FileUpload or of Command, and the values of Id and MaxSize, 0 when the
\* name is missing
Answer(code, id, maxsize) == [code |-> code, Id |-> id, MaxSize |-> maxsize]

\* what the device sends during an upload: the upload is aborted, started,
\* in error or of a wrong MD5, the command is in error, the acknowledgement
\* of the description of the file with the size of a chunk, the
\* acknowledgement of a chunk, and an acknowledgement under another Id
PushMessages ==
    { Answer("Aborted", 0, 0),
      Answer("Started", 0, 0),
      Answer("MD5 mismatch", 0, 0),
      Answer("Error 1", 0, 0),
      Answer("Command Error", 0, 0),
      Answer("", 2, 2),
      Answer("", 2, 0),
      Answer("", 3, 2) }

InitPush ==
    /\ pc = "start"
    /\ decode = <<>>
    /\ info = None
    /\ groupmapping = None
    /\ jsonconfig = None
    /\ run = NewRun(<<>>)
    /\ ignorewarning = FALSE
    /\ packzero = TRUE
    /\ usx = None
    /\ args = None
    /\ effects = <<>>
    /\ \E n \in 1..MaxUpload :
           unit = [ack_flag |-> FALSE, err_flag |-> FALSE, err_str |-> "",
                   run_flag |-> FALSE, file_id |-> 2, file_chunk_size |-> ChunkSize,
                   encode_cfg |-> [i \in 1..n |-> i], dobj |-> [i \in 1..n |-> i],
                   timeout |-> 0, net |-> <<>>, sent |-> 0, cb |-> "idle",
                   events |-> {}, result |-> None]

\* client.publish(topic_publish, json.dumps({"Password": ..., "File": ...,
\* "Id": file_id, "Type": MQTT_FILETYPE, "Size": len(encode_cfg)}))
PushRequest ==
    /\ pc = "start"
    /\ effects' = effects \o publish("header")
    /\ unit' = [unit EXCEPT !.run_flag = TRUE]
    /\ pc' = "ack"
    /\ UNCHANGED <<decode, info, groupmapping, jsonconfig, run, ignorewarning, packzero, usx, args>>

\* ack_flag = True, then the test of run_flag and the entry of wait_for_ack
PushSetAck ==
    /\ pc = "ack"
    /\ unit' = [unit EXCEPT !.ack_flag = TRUE, !.timeout = MqttTicks]
    /\ pc' = IF unit.run_flag THEN "wait" ELSE "finish"
    /\ UNCHANGED <<decode, info, groupmapping, jsonconfig, run, ignorewarning, packzero, usx,
                   args, effects>>

\* wait_for_ack, a round of the loop
PushSleep ==
    /\ pc = "wait"
    /\ unit.ack_flag /\ ~unit.err_flag /\ unit.timeout > 0
    /\ unit' = [unit EXCEPT !.timeout = @ - 1]
    /\ UNCHANGED <<pc, decode, info, groupmapping, jsonconfig, run, ignorewarning, packzero,
                   usx, args, effects>>

\* wait_for_ack, after the loop: the timeout, and return ack_flag
PushWaited ==
    /\ pc = "wait"
    /\ ~(unit.ack_flag /\ ~unit.err_flag /\ unit.timeout > 0)
    /\ unit' = [unit EXCEPT !.err_flag = @ \/ unit.timeout = 0,
                            !.events = IF unit.timeout = 0 THEN @ \cup {"timeout"} ELSE @]
    /\ pc' = IF unit.ack_flag THEN "abort" ELSE "chunk"
    /\ UNCHANGED <<decode, info, groupmapping, jsonconfig, run, ignorewarning, packzero, usx,
                   args, effects>>

\* client.publish(topic_publish, "0"); run_flag = False; the loop goes on
\* with the next chunk
PushAbort ==
    /\ pc = "abort"
    /\ effects' = effects \o publish("0")
    /\ unit' = [unit EXCEPT !.run_flag = FALSE]
    /\ pc' = "chunk"
    /\ UNCHANGED <<decode, info, groupmapping, jsonconfig, run, ignorewarning, packzero, usx, args>>

\* chunk = dobj[:file_chunk_size]; dobj = dobj[file_chunk_size:]; the chunk
\* is published, or the MD5 when no chunk is left
PushChunk ==
    /\ pc = "chunk"
    /\ LET size == unit.file_chunk_size
           chunk == SubSeq(unit.dobj, 1, IF size < Len(unit.dobj) THEN size ELSE Len(unit.dobj))
           rest == SubSeq(unit.dobj, Len(chunk) + 1, Len(unit.dobj))
       IN IF Len(chunk) > 0
          THEN /\ effects' = effects \o publish("chunk")
               /\ unit' = [unit EXCEPT !.dobj = rest]
               /\ pc' = "ack"
          ELSE /\ effects' = effects \o publish("md5")
               /\ unit' = [unit EXCEPT !.dobj = rest, !.run_flag = FALSE]
               /\ pc' = "finish"
    /\ UNCHANGED <<decode, info, groupmapping, jsonconfig, run, ignorewarning, packzero, usx, args>>

\* after the loop: the error of err_flag, else ExitCode.OK
PushFinish ==
    /\ pc = "finish"
    /\ unit' = [unit EXCEPT !.result = IF ~unit.err_flag THEN IntV(0)
                                       ELSE IntV(DOWNLOAD_CONFIG_ERROR)]
    /\ pc' = "returned"
    /\ UNCHANGED <<decode, info, groupmapping, jsonconfig, run, ignorewarning, packzero, usx,
                   args, effects>>

\* restore: exit_ on the error code of push_mqtt, else the restore is
\* reported successful
PushRestore ==
    /\ pc = "returned"
    /\ IF unit.result.v # 0
       THEN /\ run' = exit_(run, UPLOAD_CONFIG_ERROR, "Config data upload failed", "", None, TRUE)
            /\ pc' = "exit"
       ELSE /\ run' = run
            /\ pc' = "done"
    /\ UNCHANGED <<decode, info, groupmapping, jsonconfig, ignorewarning, packzero, usx, args,
                   effects, unit>>

\* the device sends a message once the description of the upload has been
\* published
PushDevice ==
    /\ pc \notin {"start", "returned", "exit", "done"}
    /\ unit.sent < MaxAnswers
    /\ \E m \in PushMessages :
           unit' = [unit EXCEPT !.net = Append(@, m), !.sent = @ + 1]
    /\ UNCHANGED <<pc, decode, info, groupmapping, jsonconfig, run, ignorewarning, packzero,
                   usx, args, effects>>

\* on_message, the try block: the errors of the device return at once, the
\* "MD5 mismatch" with err_flag left as it is; MaxSize under the Id of the
\* upload is the size of the chunks from now on
PushParse ==
    /\ pc \notin {"returned", "exit", "done"}
    /\ unit.cb = "idle"
    /\ unit.net # <<>>
    /\ LET m == Head(unit.net)
           u == [unit EXCEPT !.net = Tail(@)]
       IN unit' =
            IF m.code = "Aborted"
            THEN [u EXCEPT !.err_str = "Aborted", !.err_flag = TRUE,
                           !.events = @ \cup {"aborted"}]
            ELSE IF m.code = "MD5 mismatch"
            THEN [u EXCEPT !.err_str = "MD5 mismatch", !.events = @ \cup {"mismatch"}]
            ELSE IF m.code = "Started" THEN u
            ELSE IF m.code = "Error 1"
            THEN [u EXCEPT !.err_str = "Wrong password", !.err_flag = TRUE,
                           !.events = @ \cup {"error"}]
            ELSE IF m.code = "Command Error"
            THEN [u EXCEPT !.err_str = "Command error", !.err_flag = TRUE,
                           !.events = @ \cup {"error"}]
            ELSE [u EXCEPT !.file_chunk_size =
                               IF m.Id = unit.file_id /\ m.MaxSize # 0 THEN m.MaxSize ELSE @,
                           !.cb = "clear"]
    /\ UNCHANGED <<pc, decode, info, groupmapping, jsonconfig, run, ignorewarning, packzero,
                   usx, args, effects>>

\* on_message: ack_flag = False
PushClear ==
    /\ pc \notin {"returned", "exit", "done"}
    /\ unit.cb = "clear"
    /\ unit' = [unit EXCEPT !.ack_flag = FALSE, !.cb = "idle"]
    /\ UNCHANGED <<pc, decode, info, groupmapping, jsonconfig, run, ignorewarning, packzero,
                   usx, args, effects>>

NextPush ==
    \/ PushRequest \/ PushSetAck \/ PushSleep \/ PushWaited \/ PushAbort \/ PushChunk
    \/ PushFinish \/ PushRestore \/ PushDevice \/ PushParse \/ PushClear

SpecPush == InitPush /\ [][NextPush]_vars

\* ------------------------------------------------------------------------
\* Properties of the main flow
\* ------------------------------------------------------------------------
\* the messages of a refused restore the run has written
RestoreErrors == SelectSeq(run.log, LAMBDA m : m.status = RESTORE_DATA_ERROR)

\* the checksum field of the setting: cfg_crc32, else cfg_crc, else None
ChecksumFielddef(template) ==
    IF DictGet(template, "cfg_crc32") # None THEN DictGet(template, "cfg_crc32")
    ELSE DictGet(template, "cfg_crc")

\* the addresses of the checksum field
ChecksumField(template) ==
    IF ChecksumFielddef(template) = None THEN {}
    ELSE ChecksumFielddef(template).baseaddr
         ..(ChecksumFielddef(template).baseaddr + get_fieldlength(ChecksumFielddef(template)) - 1)

\* the checksum the checksum field of dobj holds
ChecksumRead(dobj, template) ==
    IF DictGet(template, "cfg_crc32") # None
    THEN LongV(Unpack32(dobj, DictGet(template, "cfg_crc32").baseaddr))
    ELSE IF DictGet(template, "cfg_crc") # None
    THEN IntV(UnpackUnsigned(dobj, DictGet(template, "cfg_crc").baseaddr, 2))
    ELSE None

\* the checksum computed over dobj
ChecksumComputed(dobj, template) ==
    IF DictGet(template, "cfg_crc32") # None THEN LongV(get_settingcrc32(dobj))
    ELSE IF DictGet(template, "cfg_crc") # None THEN IntV(get_settingcrc(dobj))
    ELSE None

\* dobj and decode differ in no byte outside the checksum field
SameOutsideChecksum(dobj) ==
    \A a \in DOMAIN decode \ ChecksumField(info.template) : dobj[a] = decode[a]

RECURSIVE WithinValidator(_, _)
\* every number of a decoded value satisfies the validator of its field
WithinValidator(fielddef, value) ==
    IF value = None THEN TRUE
    ELSE IF value.k = "list"
    THEN \A i \in 1..Len(value.v) : WithinValidator(get_subfielddef(fielddef), value.v[i])
    ELSE IF value.k = "dict"
    THEN \A i \in 1..Len(fielddef.format_.fields) :
             WithinValidator(fielddef.format_.fields[i][2],
                             DictGet(value.v, fielddef.format_.fields[i][1]))
    ELSE IF value.k = "int" THEN validate_value(value.v, fielddef)
    ELSE TRUE

\* the text holds n strings at most, of printable characters, and nothing
\* but NUL after them
CleanText(text, n) ==
    \A i \in 1..Len(text) :
        text[i] # 0 => /\ IsPrintable(text[i])
                       /\ Cardinality({j \in 1..(i - 1) : text[j] = 0}) < n

\* the number of strings the text field of the setting holds
TextCount(template) ==
    IF SETTINGVAR(template) = <<>> THEN 1 ELSE get_strindex([template |-> template], "SET_MAX")

\* the configuration read is valid under the setting resolved: its size
\* and checksum are right (it decodes without a message), every number
\* satisfies its validator, and its text field is clean
Valid ==
    /\ info # None
    /\ ~bin2mapping([decode |-> decode, info |-> info], NewRun(decode), TRUE).st.raised
    /\ bin2mapping([decode |-> decode, info |-> info], NewRun(decode), TRUE).st.log = <<>>
    /\ WithinValidator(RootFielddef(info.template),
                       bin2mapping([decode |-> decode, info |-> info], NewRun(decode),
                                   TRUE).valuemapping)
    /\ CleanText(UnpackString(decode, DictGet(info.template, "ota_url").baseaddr,
                              DictGet(info.template, "ota_url").format_.cnt),
                 TextCount(info.template))

\* mapping2bin has been called with the restore data offer
Restored(offer) ==
    /\ pc \in {"encoded", "exit", "raised"}
    /\ jsonconfig # None
    /\ jsonconfig = offer

\* C1: round trip.  When the configuration read is valid under the setting
\* resolved and mapping2bin is given the mapping bin2mapping made of it,
\* mapping2bin returns a buffer that equals the configuration in every byte
\* outside the checksum field and whose checksum field holds the checksum
\* computed over the configuration.
C1_RoundTrip ==
    (Restored(groupmapping) /\ Valid)
    => /\ pc = "encoded"
       /\ SameOutsideChecksum(run.dobj)
       /\ ChecksumRead(run.dobj, info.template) = ChecksumComputed(decode, info.template)

\* the bits of the 16 bit word of the field outside the field's window
OutsideWindow(dobj, fielddef) ==
    BitAnd(UnpackUnsigned(dobj, fielddef.baseaddr, 2),
           BitXor(Pow2(16) - 1, BitShift(Pow2(fielddef.bits) - 1, fielddef.bitshift)))

\* the field name of the dict field group of the setting resolved, None
\* when the setting has no such field
GroupField(group, name) ==
    IF DictGet(info.template, group) = None THEN None
    ELSE DictGet(DictGet(info.template, group).format_.fields, name)

\* C2: bit isolation.  Whenever mapping2bin accepts a number for a bit
\* window field (it writes no restore error), the word holding the field is
\* after the call what it was before in every bit outside the window; the
\* fields of tflag share an unsigned word, those of webcam_config a signed one.
C2_BitIsolation ==
    /\ \A name \in TflagNumbers, v \in OfferInts :
           (Restored(TflagOffer(name, IntV(v))) /\ pc = "encoded" /\ RestoreErrors = <<>>)
           => OutsideWindow(run.dobj, GroupField("tflag", name))
                  = OutsideWindow(decode, GroupField("tflag", name))
    /\ \A name \in WebcamNumbers, v \in OfferInts :
           (Restored(WebcamOffer(name, IntV(v))) /\ pc = "encoded" /\ RestoreErrors = <<>>
            /\ GroupField("webcam_config", name) # None)
           => OutsideWindow(run.dobj, GroupField("webcam_config", name))
                  = OutsideWindow(decode, GroupField("webcam_config", name))

\* the configuration mapping2bin returned read again
Redecoded ==
    bin2mapping([decode |-> run.dobj, info |-> get_config_info(run.dobj)],
                NewRun(run.dobj), TRUE).st

\* C3: whenever mapping2bin returns a buffer, the checksum field of the
\* setting resolved (cfg_crc32 when the setting has it, else cfg_crc) holds
\* the checksum computed over the buffer returned, and bin2mapping of that
\* buffer reports no checksum error.
C3_ChecksumRenewed ==
    pc = "encoded"
    => /\ ChecksumRead(run.dobj, info.template) = ChecksumComputed(run.dobj, info.template)
       /\ \A n \in 1..Len(Redecoded.log) : Redecoded.log[n].status # DATA_CRC_ERROR

\* a restore data has changed the data and mapping2bin has written a
\* CRC32 other than the one read
C3_Witness ==
    /\ pc = "encoded"
    /\ RestoreErrors = <<>>
    /\ DictGet(info.template, "cfg_crc32") # None
    /\ ~SameOutsideChecksum(run.dobj)
    /\ ChecksumRead(run.dobj, info.template) # ChecksumRead(decode, info.template)

\* the versions of the settings registered
Registered == {SETTINGS[i][1] : i \in 1..Len(SETTINGS)}

\* the version the configuration read carries
ObservedVersion == UnpackUnsigned(decode, 8, 4)

\* the setting registered for the version
SettingOf(version) ==
    SETTINGS[CHOOSE i \in 1..Len(SETTINGS) : SETTINGS[i][1] = version][3]

\* C4: schema resolution.  Once get_config_info has returned or exited
\* (its identification of the hardware, which comes first, may raise), the
\* setting it resolved is the one registered with the greatest version not
\* above the version read, the very version read when that is registered;
\* when no version registered is that low the program has exited with
\* UNSUPPORTED_VERSION and nothing is decoded.
C4_SchemaResolution ==
    pc \notin {"start", "raised"}
    => IF \E r \in Registered : r <= ObservedVersion
       THEN /\ info # None
            /\ info.template_version \in Registered
            /\ info.template_version <= ObservedVersion
            /\ \A r \in Registered : r <= ObservedVersion => r <= info.template_version
            /\ ObservedVersion \in Registered => info.template_version = ObservedVersion
            /\ info.template = SettingOf(info.template_version)
       ELSE /\ pc = "exit"
            /\ run.exited
            /\ run.EXIT_CODE = UNSUPPORTED_VERSION
            /\ info = None
            /\ groupmapping = None

\* a version between two registered ones has resolved to the lower one
C4_Witness ==
    /\ pc = "mapped"
    /\ ObservedVersion \notin Registered
    /\ \E r \in Registered : r > ObservedVersion
    /\ info.template_version < ObservedVersion
    /\ groupmapping # None

\* get_config_info has settled the version read: it has returned the
\* setting of version resolved, or (resolved 0) has found none and the
\* program has exited with UNSUPPORTED_VERSION
Resolves(observed, resolved) ==
    (ObservedVersion = observed /\ pc # "start" /\ ~(pc = "raised" /\ info = None))
    => IF resolved = 0
       THEN pc = "exit" /\ run.EXIT_CODE = UNSUPPORTED_VERSION /\ info = None
       ELSE info # None /\ info.template_version = resolved
                        /\ info.template = SettingOf(resolved)

\* C11 as stated: with settings registered at the versions 1, 2, 5 and 9,
\* the versions read 0, 1, 3, 5, 8, 9, 50 resolve to none, 1, 1, 5, 5, 9, 9.
C11_ResolutionAsStated ==
    /\ Registered = {1, 2, 5, 9}
    /\ Resolves(0, 0) /\ Resolves(1, 1) /\ Resolves(3, 1) /\ Resolves(5, 5)
    /\ Resolves(8, 5) /\ Resolves(9, 9) /\ Resolves(50, 9)

\* C11: schema resolution monotonicity.  With settings registered at the
\* versions 1, 2, 5 and 9, the versions read 0, 1, 3, 5, 8, 9, 50 resolve to
\* none, 1, 2, 5, 5, 9, 9: the version 3 resolves to the setting of version
\* 2, the greatest registered version not above it.
C11_ResolutionMonotonic ==
    /\ Registered = {1, 2, 5, 9}
    /\ Resolves(0, 0) /\ Resolves(1, 1) /\ Resolves(3, 2) /\ Resolves(5, 5)
    /\ Resolves(8, 5) /\ Resolves(9, 9) /\ Resolves(50, 9)

\* the version 3 has resolved to the setting of version 2 and the
\* configuration has been decoded with it
C11_Witness ==
    /\ ObservedVersion = 3
    /\ pc = "mapped"
    /\ info.template_version = 2
    /\ info.template = SETTING_2
    /\ groupmapping # None

\* the number is outside the range of the field's type, or it is not 0
\* and fails the field's validator
Refusable(fielddef, value) ==
    \/ value < get_fieldminmax(fielddef)[1]
    \/ value > get_fieldminmax(fielddef)[2]
    \/ ~validate_value(value, fielddef)

\* C5: when mapping2bin is offered, for a number field, a number outside
\* the range of the field's type or one that is not 0 and fails the field's
\* validator, it writes a restore error naming the field and the number and
\* leaves the field as it was; unless warnings are ignored the program exits.
C5_NumericRange ==
    \A name \in {"cfg_holder", "display_size", "timezone"}, v \in OfferInts :
        (Restored(Offer1(name, IntV(v))) /\ pc # "raised"
         /\ Refusable(DictGet(info.template, name), v))
        => /\ \E n \in 1..Len(RestoreErrors) :
                  /\ RestoreErrors[n].name = name
                  /\ RestoreErrors[n].value = IntV(v)
           /\ pc = "encoded"
              => get_field(info, run.dobj, info.hardware, name, DictGet(info.template, name),
                           TRUE, 0, FALSE)
                 = get_field(info, decode, info.hardware, name, DictGet(info.template, name),
                             TRUE, 0, FALSE)
           /\ ~ignorewarning => pc = "exit"

\* the string pool of the configuration read with value in the place of
\* the indexed string field
Rejoined(fielddef, value) ==
    LET sarray == PoolPieces(Split(UnpackString(decode, fielddef.baseaddr,
                                                fielddef.format_.cnt), -1),
                             get_strindex(info, "SET_MAX"))
    IN Join([sarray EXCEPT ![PyIndex(sarray, get_strindex(info, fielddef.strindex_name))] = value])

\* the text offered for the field name does not fit the string pool
Overflows(name, text) ==
    /\ DictGet(info.template, name) # None
    /\ DictGet(info.template, name).strindex_name # ""
    /\ Len(Rejoined(DictGet(info.template, name), StringBytes(text)))
           > get_fieldlength(DictGet(info.template, name))

\* C6: indexed string overflow.  When the text offered for an indexed
\* string makes the string pool, joined with NUL, longer than the pool's
\* field, mapping2bin writes the restore error "Text pool overflow" for the
\* field and the loop over the restore data leaves every byte of the
\* buffer as it was: the buffer returned differs from the configuration
\* read in the renewed checksum at most.
C6_PoolOverflow ==
    \A name \in TextNames, text \in OfferTexts :
        (Restored(Offer1(name, StrV(text))) /\ Overflows(name, text))
        => /\ pc # "raised"
           /\ \E n \in 1..Len(RestoreErrors) :
                  /\ RestoreErrors[n].text = "Text pool overflow"
                  /\ RestoreErrors[n].name = name
           /\ ~ignorewarning => pc = "exit"
           /\ SameOutsideChecksum(run.dobj)
           /\ mapping2bin_items([decode |-> decode, info |-> info], NewRun(decode),
                                jsonconfig.v, 1).dobj = decode

\* a text short enough for a string has overflowed the pool: the other
\* string of the pool leaves no room for it
C6_Witness ==
    /\ pc = "exit"
    /\ jsonconfig # None
    /\ jsonconfig = Offer1("ota_url", StrV(<<65, 66, 67, 68, 69, 70, 71>>))
    /\ Overflows("ota_url", <<65, 66, 67, 68, 69, 70, 71>>)
    /\ \E n \in 1..Len(RestoreErrors) : RestoreErrors[n].text = "Text pool overflow"
    /\ run.dobj = decode

\* the field name is read-only for the value offered: its write converter
\* is the constant False, or a function that returns False for the value
Unwritable(name, value) ==
    /\ DictGet(info.template, name) # None
    /\ \/ DictGet(info.template, name).writeconverter = "False"
       \/ /\ value.k = "str"
          /\ write_converter(Globals([decode |-> decode, info |-> info]), value,
                             DictGet(info.template, name)) = FalseV

\* C14: read-only fields.  When mapping2bin is offered a value for a field
\* whose write converter is the constant False, or a function that returns
\* False for the value, it returns without a restore error or an exit,
\* and the buffer returned differs from the configuration read in the
\* renewed checksum at most.
C14_ReadOnly ==
    \A name \in ReadOnlyNames \cup {"script"},
       value \in {IntV(1)} \cup {StrV(t) : t \in OfferScripts} :
        (Restored(Offer1(name, value)) /\ Unwritable(name, value))
        => /\ pc = "encoded"
           /\ RestoreErrors = <<>>
           /\ SameOutsideChecksum(run.dobj)

\* bin2mapping has been called on the configuration read
Decoded == info # None /\ pc # "info"

\* the messages of the status the run has written
Messages(status) == SelectSeq(run.log, LAMBDA m : m.status = status)

\* C15: decode failure containment.  When the read of a scalar field
\* fails in bin2mapping (here the read of cfg_crc32 or of a byte of the
\* checksum past the end of the data), then, when warnings are ignored (no
\* fail-fast policy), no exception leaves bin2mapping and it returns the
\* mapping of the other fields; in every case the failure is reported in
\* a message.
C15_DecodeContained ==
    (Decoded /\ SizeFits([decode |-> decode, info |-> info])
     /\ ReadPastEnd([decode |-> decode, info |-> info]))
    => /\ ignorewarning => (pc # "raised" /\ groupmapping # None)
       /\ run.log # <<>>

\* the checksum the data carries differs from the checksum computed, where
\* bin2mapping gets as far as comparing them
CrcMismatch ==
    /\ SizeFits([decode |-> decode, info |-> info])
    /\ ~ReadPastEnd([decode |-> decode, info |-> info])
    /\ ChecksumRead(decode, info.template) # ChecksumComputed(decode, info.template)

\* C16 as stated: with default options (warnings not ignored) a checksum
\* mismatch found by bin2mapping is reported as a warning, the decode
\* completes and the mapping is returned.
C16_MismatchAsStated ==
    (Decoded /\ CrcMismatch /\ ~ignorewarning)
    => /\ Messages(DATA_CRC_ERROR) # <<>>
       /\ pc # "exit"
       /\ groupmapping # None

\* C16 amended: a checksum mismatch found by bin2mapping is reported with
\* the status DATA_CRC_ERROR; with default options the program exits with
\* that status and no mapping is returned, and only when warnings are
\* ignored the decode completes and the mapping is returned.
C16_MismatchWarned ==
    (Decoded /\ CrcMismatch)
    => /\ Messages(DATA_CRC_ERROR) # <<>>
       /\ ~ignorewarning => /\ pc = "exit"
                            /\ run.EXIT_CODE = DATA_CRC_ERROR
                            /\ groupmapping = None
       /\ ignorewarning => groupmapping # None

\* a version 9 configuration with a wrong CRC32 has been decoded with
\* default options: the program has exited
C16_Witness ==
    /\ Decoded
    /\ CrcMismatch
    /\ info.template_version = 9
    /\ Cardinality(DOMAIN decode) = Size
    /\ ~ignorewarning
    /\ pc = "exit"
    /\ run.EXIT_CODE = DATA_CRC_ERROR

\* the size the data records, the size of the setting when the setting
\* has no cfg_size
SizeRecorded ==
    IF DictGet(info.template, "cfg_size") = None THEN info.template_size
    ELSE UnpackUnsigned(decode, DictGet(info.template, "cfg_size").baseaddr, 2)

\* C17: size mismatch.  When the data, or the size it records, is shorter
\* than the size of the setting, bin2mapping exits with DATA_SIZE_MISMATCH;
\* when the data, or the size it records, is longer, bin2mapping writes a
\* message of DATA_SIZE_MISMATCH and does not exit with it.
C17_SizeMismatch ==
    Decoded
    => /\ (Cardinality(DOMAIN decode) < info.template_size
           \/ SizeRecorded < info.template_size)
          => /\ pc = "exit"
             /\ run.EXIT_CODE = DATA_SIZE_MISMATCH
       /\ (Cardinality(DOMAIN decode) > info.template_size
           \/ SizeRecorded > info.template_size)
          => /\ Messages(DATA_SIZE_MISMATCH) # <<>>
             /\ ~(pc = "exit" /\ run.EXIT_CODE = DATA_SIZE_MISMATCH)

\* ------------------------------------------------------------------------
\* Properties of a run that backs up and restores
\* ------------------------------------------------------------------------
\* restore has been called and the program has ended
RestoreEnded == pc = "exit" /\ jsonconfig # None

\* what the run has pushed to the device or written to the source file
RestoreEffects == SelectSeq(effects, LAMBDA e : e.file # "backup")

\* C18: dry run.  When --dry-run is set, at no point of a run anything has
\* been pushed to the device by push_http or push_mqtt, or written to the
\* source file or to a backup file.
C18_DryRun == args.dryrun => effects = <<>>

\* a dry run has ended after a backup and a restore from a JSON file that
\* changes the configuration: nothing was pushed or written
C18_Witness ==
    /\ RestoreEnded
    /\ args.dryrun
    /\ args.backupfile
    /\ args.source = "http"
    /\ jsonconfig.filetype = "json"
    /\ run.dobj # decode
    /\ run.EXIT_CODE = ExitCode_OK
    /\ effects = <<>>

\* the configuration restore has made of the restore file, encoded; None
\* when it has made none
NewEncode ==
    restore_read([decode |-> decode, info |-> info], NewRun(decode), jsonconfig).new_encode_cfg

\* the restore file has passed restore's compatibility checks
Compatible ==
    ~restore_checks([decode |-> decode, info |-> info], NewRun(decode), jsonconfig).exited

\* the new configuration has gone to the device or to the source file
Pushed ==
    \E n \in 1..Len(RestoreEffects) :
        /\ RestoreEffects[n].file = args.source
        /\ RestoreEffects[n].data = NewEncode

\* C19 as stated: when the configuration made of the restore file equals
\* the configuration read, encoded, and --force-restore is not set, nothing
\* is pushed or written and the exit code is 1; when they differ or
\* --force-restore is set, the new configuration is pushed or written.
C19_SkippedAsStated ==
    (RestoreEnded /\ NewEncode # None)
    => /\ (NewEncode = decrypt_encrypt(decode) /\ ~args.forcerestore)
          => /\ RestoreEffects = <<>>
             /\ run.EXIT_CODE = RESTORE_SKIPPED
       /\ (NewEncode # decrypt_encrypt(decode) \/ args.forcerestore) => Pushed

\* C19 amended: when the configuration made of the restore file equals
\* the configuration read, encoded, and --force-restore is not set, nothing
\* is pushed or written, and, the restore file having passed the
\* compatibility checks, the exit code is 1 unless warnings are ignored,
\* when it is 0; when they differ or --force-restore is set, the restore file
\* has passed the compatibility checks and the run is no dry run, the new
\* configuration is pushed or written.
C19_Skipped ==
    (RestoreEnded /\ NewEncode # None)
    => /\ (NewEncode = decrypt_encrypt(decode) /\ ~args.forcerestore)
          => /\ RestoreEffects = <<>>
             /\ Compatible
                => run.EXIT_CODE = (IF ignorewarning THEN ExitCode_OK ELSE RESTORE_SKIPPED)
       /\ ((NewEncode # decrypt_encrypt(decode) \/ args.forcerestore)
           /\ Compatible /\ ~args.dryrun)
          => Pushed

\* a restore from a file that changes nothing has ended, not forced, with
\* default options: nothing was pushed and the exit code is 1
C19_Witness ==
    /\ RestoreEnded
    /\ NewEncode # None
    /\ NewEncode = decrypt_encrypt(decode)
    /\ ~args.forcerestore
    /\ ~args.dryrun
    /\ ~ignorewarning
    /\ RestoreEffects = <<>>
    /\ run.EXIT_CODE = RESTORE_SKIPPED

\* the raw value of the top-level field name in dobj
RawField(dobj, name) ==
    get_field(info, dobj, info.hardware, name, DictGet(info.template, name), TRUE, 0, FALSE)

\* C20: encode frame.  When mapping2bin returns, every field of the
\* setting whose name is missing from the restore data, the checksum
\* fields apart, reads from the buffer returned as it reads from the
\* configuration read; when the restore data names one field of the first
\* element of tflag, the other fields of that element and the second
\* element, which lies beyond the list supplied, read as before.
C20_EncodeFrame ==
    (pc = "encoded" /\ jsonconfig # None)
    => /\ \A i \in 1..Len(info.template) :
              (DictGet(jsonconfig.v, info.template[i][1]) = None
               /\ info.template[i][1] \notin {"cfg_crc", "cfg_crc32"})
              => RawField(run.dobj, info.template[i][1]) = RawField(decode, info.template[i][1])
       /\ \A name \in TflagNumbers, v \in OfferInts :
              jsonconfig = TflagOffer(name, IntV(v))
              => /\ RawField(run.dobj, "tflag").v[2] = RawField(decode, "tflag").v[2]
                 /\ \A other \in TflagNumbers \ {name} :
                        DictGet(RawField(run.dobj, "tflag").v[1].v, other)
                        = DictGet(RawField(decode, "tflag").v[1].v, other)

\* the hardware of the field definition has no bit of the hardware the
\* data is from
Gated(fielddef) == BitAnd(fielddef.hardware, get_bitmask(info.hardware)) = 0

\* C21: hardware gating.  For every field of the setting whose hardware
\* has no bit of the hardware the data is from, the mapping decoded has no
\* entry, and the buffer mapping2bin returns holds the bytes of the field
\* as the configuration read does, whatever the restore data names.
C21_HardwareGating ==
    info # None
    => \A i \in 1..Len(info.template) :
           Gated(info.template[i][2])
           => /\ groupmapping # None => DictGet(groupmapping.v, info.template[i][1]) = None
              /\ pc = "encoded"
                 => \A a \in info.template[i][2].baseaddr
                             ..(info.template[i][2].baseaddr
                                + get_fieldlength(info.template[i][2]) - 1) :
                        run.dobj[a] = decode[a]

\* a configuration from an ESP82 whose webcam_config bytes are not zero
\* has been decoded without webcam_config, the restore data has offered a
\* number for a field of webcam_config, and the buffer returned is the
\* configuration read
C21_Witness ==
    /\ pc = "encoded"
    /\ info.hardware = 0
    /\ DictGet(info.template, "webcam_config") # None
    /\ Gated(DictGet(info.template, "webcam_config"))
    /\ decode[22] = 5
    /\ DictGet(groupmapping.v, "webcam_config") = None
    /\ jsonconfig = WebcamOffer("contrast", IntV(1))
    /\ RestoreErrors = <<>>
    /\ run.dobj = decode

\* what get_field reads for the indexed string field name of the setting
DecodeSlot(dobj, name) ==
    get_field(info, dobj, info.hardware, name, DictGet(info.template, name), TRUE, 0, TRUE)

\* C22: an accepted write of an indexed string replaces one slot.  After
\* set_field has written a text to an indexed string field of the setting
\* with no message, get_field reads the text written from the field and,
\* from every other indexed string field, what it read before.
C22_OneSlot ==
    (pc = "written" /\ unit.fieldname \in TextNames /\ RestoreErrors = <<>>)
    => /\ DecodeSlot(run.dobj, unit.fieldname) = jsonconfig
       /\ \A other \in TextNames \ {unit.fieldname} :
              DecodeSlot(run.dobj, other) = DecodeSlot(decode, other)

\* the restore file read is a JSON file whose ota_url does not fit the
\* string pool of the configuration
OverflowOffered ==
    /\ jsonconfig # None
    /\ info # None
    /\ jsonconfig.filetype = "json"
    /\ DictGet(jsonconfig.data.v, "ota_url") = LongUrl
    /\ Overflows("ota_url", LongUrl.v)

\* a message "Text pool overflow" of the restore
OverflowReported ==
    \E n \in 1..Len(RestoreErrors) : RestoreErrors[n].text = "Text pool overflow"

\* C23 as stated: an overflow of the string pool is fatal for the restore
\* whether or not warnings are ignored: there is no new configuration and
\* nothing is pushed or written.
C23_OverflowFatal ==
    (RestoreEnded /\ OverflowOffered)
    => /\ OverflowReported
       /\ NewEncode = None
       /\ RestoreEffects = <<>>

\* C23: an overflow of the string pool is reported as a restore data error.
\* Without --ignore-warnings it is fatal: there is no new configuration,
\* nothing is pushed or written and the exit code is that of a restore
\* data error.  With --ignore-warnings the restore goes on with the string
\* pool as it was: the new configuration holds the pool bytes of the
\* configuration read, and it is pushed or written when it differs from the
\* configuration read or --force-restore is set, and --dry-run is not set.
C23_Overflow ==
    (RestoreEnded /\ OverflowOffered)
    => /\ OverflowReported
       /\ ~ignorewarning
          => /\ NewEncode = None
             /\ RestoreEffects = <<>>
             /\ run.EXIT_CODE = RESTORE_DATA_ERROR
       /\ ignorewarning
          => /\ NewEncode # None
             /\ \A a \in 28..35 : decrypt_encrypt(NewEncode)[a] = decode[a]
             /\ ((NewEncode # decrypt_encrypt(decode) \/ args.forcerestore) /\ ~args.dryrun)
                => Pushed

\* with --ignore-warnings a restore file with display_size 2 and an ota_url
\* overflowing the string pool has been read, the overflow has been
\* reported, and the new configuration, differing from the one read, has
\* been pushed to the device
C23_Witness ==
    /\ RestoreEnded
    /\ OverflowOffered
    /\ OverflowReported
    /\ ignorewarning
    /\ ~args.forcerestore
    /\ args.source = "mqtt"
    /\ NewEncode # None
    /\ NewEncode # decrypt_encrypt(decode)
    /\ Pushed

\* ota_url is a plain string field of the setting: no index into the
\* string pool, no write converter
PlainUrl ==
    /\ info # None
    /\ DictGet(info.template, "ota_url") # None
    /\ DictGet(info.template, "ota_url").strindex_name = ""
    /\ DictGet(info.template, "ota_url").writeconverter = "None"

\* the bytes of the field ota_url in dobj
UrlBytes(dobj) == [i \in 1..8 |-> dobj[27 + i]]

\* C26: plain strings are length-checked on encode.  A string offered for
\* a plain string field, not a compressed one, that is longer than the
\* field less one byte is reported as a restore data error and the bytes
\* of the field stay as they are; a string that is not longer is written
\* to the field, padded with NUL to the length of the field.
C26_PlainString ==
    \A text \in OfferTexts :
        (PlainUrl /\ Restored(Offer1("ota_url", StrV(text)))
         /\ ~(Len(text) > 4 /\ text[1] = 0))
        => /\ pc # "raised"
           /\ Len(text) > 8 - 1
              => /\ \E n \in 1..Len(RestoreErrors) :
                        /\ RestoreErrors[n].text = "string length exceeding"
                        /\ RestoreErrors[n].name = "ota_url"
                 /\ ~ignorewarning => pc = "exit"
                 /\ UrlBytes(run.dobj) = UrlBytes(decode)
           /\ Len(text) <= 8 - 1
              => /\ RestoreErrors = <<>>
                 /\ pc = "encoded"
                 /\ UrlBytes(run.dobj) = [i \in 1..8 |-> IF i <= Len(text) THEN text[i] ELSE 0]

\* a string of seven characters has been written over the plain string
\* "AB" and a NUL ends it in the last byte of the field
C26_Witness ==
    /\ PlainUrl
    /\ pc = "encoded"
    /\ jsonconfig = Offer1("ota_url", StrV(<<65, 66, 67, 68, 69, 70, 71>>))
    /\ UrlBytes(decode) # UrlBytes(run.dobj)
    /\ UrlBytes(run.dobj) = <<65, 66, 67, 68, 69, 70, 71, 0>>

\* ------------------------------------------------------------------------
\* Properties of pull_mqtt
\* ------------------------------------------------------------------------
\* C27: what pull_mqtt returns is checked.  pull_mqtt returns data only
\* when an MD5 has come and the MD5 of the chunks taken is that MD5; after
\* an abort or an error of the device, a timeout, a message of another Id
\* or an MD5 that differs, the call ends in exit_ with the download error
\* and returns nothing, however the callback and the main thread take
\* turns.
C27_PullChecked ==
    /\ pc = "returned"
       => /\ unit.events = {}
          /\ unit.result # None
             => /\ unit.file_md5 # <<>>
                /\ unit.file_md5 = hexdigest(unit.result.v)
                /\ unit.result = unit.dobj
    /\ (pc \in {"returned", "exit"} /\ unit.events # {})
       => /\ pc = "exit"
          /\ run.exited
          /\ run.EXIT_CODE = DOWNLOAD_CONFIG_ERROR
          /\ unit.result = None

\* the description of the file, the chunks <<1>> and <<2>> and their MD5
\* have come and pull_mqtt has returned the two chunks
PullComplete ==
    /\ pc = "returned"
    /\ unit.result = BytesV(<<1, 2>>)
    /\ unit.file_md5 = hexdigest(<<1, 2>>)
    /\ unit.sent = 4
    /\ unit.events = {}

\* an MD5 that is not the MD5 of the chunks taken has ended the call in
\* the download error
PullMismatch ==
    /\ pc = "exit"
    /\ unit.dobj = BytesV(<<1, 2>>)
    /\ unit.file_md5 = hexdigest(<<1>>)
    /\ unit.events = {"mismatch"}
    /\ run.EXIT_CODE = DOWNLOAD_CONFIG_ERROR

\* C30: no acknowledgement is lost.  When on_message has processed the
\* answer of the device to the last request up to ack_flag = False, the
\* main thread does not wait for that answer with ack_flag True.
C30_NoLostAck ==
    (pc = "wait" /\ unit.answered) => ~unit.ack_flag

\* ------------------------------------------------------------------------
\* Properties of push_mqtt
\* ------------------------------------------------------------------------
\* the errors of the device that on_message has read
DeviceErrors == unit.events \cap {"aborted", "error", "mismatch"}

\* C28: push_mqtt returns 0, and restore reports the restore successful,
\* only when the device has reported no abort, no error and no MD5
\* mismatch for the upload.
C28_PushRejected ==
    /\ (pc = "returned" /\ unit.result = IntV(0)) => DeviceErrors = {}
    /\ pc = "done" => DeviceErrors = {}

\* the positions of the abort message among the messages published
Aborts == {n \in 1..Len(effects) : effects[n].payload = "0"}

\* C29: once the abort message "0" has been published, no chunk and no
\* Md5 message is published.
C29_NothingAfterAbort ==
    \A n \in Aborts : \A k \in (n + 1)..Len(effects) :
        effects[k].payload \notin {"chunk", "md5"}

\* ------------------------------------------------------------------------
\* Properties of the checksum unit
\* ------------------------------------------------------------------------
\* the bytes the checksum of the buffer read is computed over
ChecksumData == [i \in 1..(Cardinality(DOMAIN decode) - 4) |-> decode[i - 1]]

\* get_settingcrc32 has returned the checksum of the buffer read
Crc32Returned == pc = "returned" /\ unit # None /\ unit.call = "get_settingcrc32"

\* 0x29058C73 and 0xCBF43926: the standard CRC-32 of bytes(range(256)) and
\* of "123456789"
StandardOfReferenceVector == <<10501, 35955>>
StandardOfCheckString == <<52212, 14630>>

\* 0xDB6CF6D4: the CRC-32 of bytes(range(256)) with the register starting
\* from 0
ZeroStartOfReferenceVector == <<56172, 63188>>

\* C12 as stated: the CRC-32 get_settingcrc32 returns for the 256 bytes
\* 0, 1, ..., 255 is the one the standard CRC-32 gives for them, 0x29058C73.
C12_Crc32AsStated ==
    (Crc32Returned /\ ChecksumData = ReferenceVector)
    => /\ unit.ret = crc32_standard(decode)
       /\ unit.ret = StandardOfReferenceVector

\* C12: CRC32 reference vector.  The CRC-32 get_settingcrc32 returns for
\* the 256 bytes 0, 1, ..., 255 is 0xDB6CF6D4, whatever the CRC32 field
\* behind them holds: the CRC-32 of the reflected polynomial 0xEDB88320 with
\* the register starting from 0 and the one's complement at the end.  It is
\* not the standard CRC-32 of these bytes, 0x29058C73, whose register starts
\* from 0xffffffff; for every data the two differ, and for no data at all
\* get_settingcrc32 returns 0xffffffff.
C12_Crc32ReferenceVector ==
    Crc32Returned
    => /\ ChecksumData = ReferenceVector
          => /\ unit.ret = ZeroStartOfReferenceVector
             /\ crc32_standard(decode) = StandardOfReferenceVector
       /\ ChecksumData = CheckString => crc32_standard(decode) = StandardOfCheckString
       /\ ChecksumData = <<>> => unit.ret = <<65535, 65535>>
       /\ unit.ret # crc32_standard(decode)
       /\ unit.ret = get_settingcrc32(WithCrc32Field(ChecksumData, <<0, 0, 0, 0>>))

\* the checksum of the 256 bytes has been computed with a CRC32 field
\* behind them that is not empty
C12_Witness ==
    /\ Crc32Returned
    /\ ChecksumData = ReferenceVector
    /\ decode[256] = 1
    /\ unit.ret = ZeroStartOfReferenceVector

\* ------------------------------------------------------------------------
\* Properties of the calls for an indexed string field
\* ------------------------------------------------------------------------
\* the call is for a string whose index name the setting does not have
NotFound ==
    /\ unit # None
    /\ unit.call = "field"
    /\ get_strindex(info, unit.fielddef.strindex_name) = -1

\* C13: string pool resolution fails closed.  When the index name of a
\* string field is not among the index names of the setting, get_field reads
\* no string of the pool for it (its value is None or empty) and set_field
\* replaces no string of the pool: the buffer stays as it was read.
C13_FailsClosed ==
    NotFound
    => /\ pc = "read" => unit.value = None \/ unit.value = StrV(<<>>)
       /\ pc \in {"written", "exit", "raised"} => run.dobj = decode

\* ------------------------------------------------------------------------
\* Properties of the write converters that compress
\* ------------------------------------------------------------------------
\* the converter called has compressed the value and compress has
\* reported that the output does not fit the field
CompressOverflow ==
    /\ pc \in {"rules", "script"}
    /\ pc = "rules" => /\ unit.CONFIG.compress_rules_cpu
                       /\ Len(unit.value) >= unit.length
    /\ LET c == compress(unit.value, Len(unit.value), Zeros(unit.length), unit.length)
       IN ~c.fault /\ c.ret = -1

\* C24: compression overflow is signalled and handled.  When compress
\* reports that the compressed rule or script does not fit the field, the
\* converter returns the value uncompressed or rejects it (False or an
\* exception), never compressed bytes.
C24_OverflowHandled ==
    CompressOverflow => unit.ret \in {StrV(unit.value), FalseV, RaiseV}

\* ------------------------------------------------------------------------
\* Properties of the calls of Unishox
\* the bytes hold no NUL, and every marker is followed by 0x01 or 0x2B
Escaped(stream) ==
    \A i \in 1..Len(stream) :
        /\ stream[i] # 0
        /\ stream[i] = ESCAPE_MARKER
           => i < Len(stream) /\ stream[i + 1] \in {1, ESCAPE_MARKER + 1}

\* C25: the escape invariant of the bit writer.  The bytes compress
\* reports as its output hold no byte 0x00, and every byte 0x2A in them is
\* followed by 0x01 or 0x2B, the closing bits included.
C25_EscapeInvariant ==
    (usx # None /\ pc \in {"compressed", "decompressed"} /\ usx.call = "compress")
    => /\ usx.stream = SubSeq(usx.compressed.out, 1, usx.compressed.ret)
       /\ Escaped(usx.stream)

\* the letter T and the closing bits make the byte 0x2A: compress has
\* returned the marker and 0x2B
C25_Witness ==
    /\ pc = "compressed"
    /\ usx.inn = <<84>>
    /\ usx.compressed.ret = 2
    /\ usx.stream = <<ESCAPE_MARKER, ESCAPE_MARKER + 1>>
    /\ Escaped(usx.stream)

\* ------------------------------------------------------------------------
\* the call of compress got the ample buffer
AmplyCompressed ==
    /\ usx # None
    /\ usx.call = "compress"
    /\ usx.compressed # None
    /\ Len(usx.compressed.out) = AmpleCompressed(usx.inn)

\* the call of decompress that followed got the ample buffer
AmplyDecompressed ==
    /\ AmplyCompressed
    /\ usx.text # None
    /\ Len(usx.text.out) = AmpleText(usx.inn)

C8_CompressInBuffer ==
    (usx # None /\ usx.compressed # None /\ Len(usx.compressed.out) >= 1) =>
        /\ ~usx.compressed.fault
        /\ ~usx.compressed.outside
        /\ usx.compressed.ret \in (0..Len(usx.compressed.out)) \cup {-1}

\* C9: Unishox decompress stays in its buffer. For every byte stream and
\* every capacity len_out of at least one byte a call of decompress ends by
\* returning the count of bytes or -1, and reads and writes the output at
\* indices 0..len_out-1 only.
C9_DecompressInBuffer ==
    (usx # None /\ usx.text # None /\ Len(usx.text.out) >= 1) =>
        /\ ~usx.text.fault
        /\ ~usx.text.outside
        /\ usx.text.ret \in (0..Len(usx.text.out)) \cup {-1}

\* the field has a validator
HasValidator(fielddef) == fielddef # None /\ Len(fielddef.validate) > 0

\* the messages validate_value's refusal of a number is reported with
ValidatorTexts == {"valid range exceeding", "valid bit range exceeding"}

\* the validation has accepted the 0 offered: no refusal by the validator
\* is reported, and where the restore went through without any message
\* the field reads 0 (or, for another hardware, is not there)
ZeroRestored(name, fielddef, addroffset) ==
    /\ pc # "raised"
    /\ \A n \in 1..Len(RestoreErrors) : RestoreErrors[n].text \notin ValidatorTexts
    /\ (pc = "encoded" /\ RestoreErrors = <<>>)
       => get_field(info, run.dobj, info.hardware, name, fielddef, TRUE, addroffset, FALSE)
              \in {None, IntV(0)}

\* C10: validator exemption.  For every field with a validator, full width
\* or bit window, the validation of mapping2bin accepts the number 0
\* offered for it: no refusal by the validator is reported, and a restore
\* that went through has left the field reading 0.
C10_ZeroAccepted ==
    /\ \A name \in TopNumbers :
           (Restored(Offer1(name, IntV(0))) /\ HasValidator(DictGet(info.template, name)))
           => ZeroRestored(name, DictGet(info.template, name), 0)
    /\ \A name \in TflagNumbers :
           (Restored(TflagOffer(name, IntV(0))) /\ HasValidator(GroupField("tflag", name)))
           => ZeroRestored(name, GroupField("tflag", name), 0)
    /\ \A name \in WebcamNumbers :
           (Restored(WebcamOffer(name, IntV(0)))
            /\ HasValidator(GroupField("webcam_config", name)))
           => ZeroRestored(name, GroupField("webcam_config", name), 0)

\* 0 was offered for the month of tflag, a bit window whose validator
\* wants 1 to 12, and has replaced the month 3
C10_Witness ==
    /\ pc = "encoded"
    /\ jsonconfig # None
    /\ jsonconfig = TflagOffer("month", IntV(0))
    /\ RestoreErrors = <<>>
    /\ get_field(info, decode, info.hardware, "month", GroupField("tflag", "month"),
                 TRUE, 0, FALSE) = IntV(3)
    /\ get_field(info, run.dobj, info.hardware, "month", GroupField("tflag", "month"),
                 TRUE, 0, FALSE) = IntV(0)
====
